---- MODULE Spec2Model ----
(***************************************************************************)
(* Off-day leave client: the user dashboard (UserDashboard + CalendarView) *)
(* and the calendar's availability computation.                            *)
(*                                                                         *)
(* Time.  A JavaScript Date is an instant; the model counts instants in    *)
(* hours.  A calendar date (the "YYYY-MM-DD" strings of the program) is a  *)
(* day number; day 0 is Sunday 2024-06-09, so day 1 is Monday 2024-06-10   *)
(* and day d has weekday d % 7 with 0 = Sunday.                            *)
(***************************************************************************)
EXTENDS Integers, Sequences, FiniteSets, TLC

VARIABLES
    today,            \* UTC calendar day of `new Date()`
    tzShift,          \* hours by which the host's UTC offset drops over the 4 local days after today
    config,           \* the Config the client holds (useConfig)
    serverLeaves,     \* the user's leaves as the server stores them
    myLeaves,         \* the leave list the client holds (useUserLeaves)
    slotRangeInfo,    \* the range slot snapshot the client holds (useSlotInfoForDateRange)
    slotInfoForDate,  \* the single-date slot detail (useSlotInfoForDate)
    stale,            \* query keys invalidated and not yet refetched
    selectedDate,     \* UserDashboard state
    selectedShift,    \* UserDashboard state
    mutation,         \* the create-leave request in flight (createLeaveMutation)
    toast,            \* the last toast shown
    view,             \* the calendar as last rendered (renderCalendar)
    viewDate,         \* CalendarView state: first instant of the displayed month
    focusedDate,      \* CalendarView state: the date that holds the keyboard focus
    formatDateInput,  \* the date string handed to formatDate
    formatted,        \* what formatDate returned for it
    leaveDate,        \* the Date that bookedWeeks builds from it as a leave's date
    allLeaves,        \* the list of all leaves the admin's client holds (useAllLeaves)
    filterStatus,     \* LeaveManagement state
    searchQuery,      \* LeaveManagement state
    selectedLeaves,   \* LeaveManagement state: the ids ticked for a bulk action
    rejectLeaveId,    \* LeaveManagement state: the leave of the open reject dialog
    adminRequest,     \* the status-change request in flight, or the last one sent
    weekShifts,       \* ShiftManagement: the week's assignments, user id -> shift id
    showBulkModal,    \* the shift whose ShiftRow shows its bulk modal, or none
    bulkChangeMode,   \* ShiftRow state: "add" or "swap"
    bulkShiftId,      \* ShiftRow state: the target shift chosen in the modal
    selectedActionUsers, \* ShiftRow state: the users ticked in the modal
    shiftRequests,    \* the assignment requests sent and not yet answered
    appMounted,       \* App: whether the mount effects of the loaded page have run
    currentUser,      \* App state: the logged-in user, or null
    storedUser,       \* localStorage item 'currentUser'
    theme,            \* App state
    storedTheme,      \* localStorage item 'theme'
    route,            \* App state: window.location.hash
    loginMobile,      \* Auth state
    loginPassword,    \* Auth state
    rememberMe,       \* Auth state: the 'Remember me' checkbox
    loginError,       \* Auth state
    loginRequest      \* the login request in flight (loginMutation)

\* CalendarView's own state
calendarVars == <<viewDate, focusedDate>>

\* the state of the other pages and utilities
dateVars == <<formatDateInput, formatted, leaveDate>>
adminVars == <<allLeaves, filterStatus, searchQuery, selectedLeaves,
               rejectLeaveId, adminRequest>>
shiftVars == <<weekShifts, showBulkModal, bulkChangeMode, bulkShiftId,
               selectedActionUsers, shiftRequests>>
sessionVars == <<appMounted, currentUser, storedUser, theme, storedTheme, route,
                 loginMobile, loginPassword, rememberMe, loginError,
                 loginRequest>>
pageVars == <<dateVars, adminVars, shiftVars, sessionVars>>

vars == <<today, tzShift, config, serverLeaves, myLeaves, slotRangeInfo,
          slotInfoForDate, stale, selectedDate, selectedShift, mutation,
          toast, view, calendarVars, pageVars>>

---------------------------------------------------------------------------
(* Bounds *)

MaxToday == 6
MaxTzShift == 1
MaxLeaves == 2
MaxSlots == 1

(* Program constants *)

LeadDays == 4
MonthDays == 30

MaxDay == MaxToday + MonthDays + 1
Dates == 0..MaxDay
Todays == 0..MaxToday
TzShifts == (0 - MaxTzShift)..MaxTzShift
WeekRanges == {"1_WEEK", "2_WEEKS", "1_MONTH"}
LeaveStatus == {"PENDING", "APPROVED", "REJECTED"}
Shifts == {"s1"}
NoDate == 0 - 1
NoShift == ""
AvailValues == 0..MaxSlots

---------------------------------------------------------------------------
(* Date conversions *)

\* Date.UTC(year, month - 1, day) of a date string: midnight UTC of that day
DateUTC(d) == d * 24

\* date.toISOString().split('T')[0]: the UTC day an instant falls in
ToISODate(ts) == ts \div 24

\* mutant: weekday index counted from Monday (0 = Monday .. 6 = Sunday)
GetUTCDay_Mut(ts) == ((ts \div 24) + 6) % 7

\* date.getUTCDay(): 0 = Sunday .. 6 = Saturday
GetUTCDay(ts) == (ts \div 24) % 7

\* days of month m (0 = January) of year y in the UTC calendar of Date
DaysInMonth(y, m) ==
    IF m = 1
    THEN (IF y % 4 = 0 /\ (y % 100 # 0 \/ y % 400 = 0) THEN 29 ELSE 28)
    ELSE IF m \in {3, 5, 8, 10} THEN 30 ELSE 31

\* the calendar months the model's days fall in: month 0 is June 2024,
\* month 12 is June 2025
CalMonths == 0..12
MonthYear(k) == 2024 + (k + 5) \div 12
MonthIndex(k) == (k + 5) % 12

\* day number of the first day of calendar month k; 2024-06-01 is day -8
RECURSIVE MonthStart(_)
MonthStart(k) ==
    IF k = 0 THEN 0 - 8
    ELSE MonthStart(k - 1) + DaysInMonth(MonthYear(k - 1), MonthIndex(k - 1))

CalDays == MonthStart(0)..(MonthStart(12) + 29)
MonthOfDay ==
    [ d \in CalDays |->
        CHOOSE k \in CalMonths :
            MonthStart(k) <= d /\ d < MonthStart(k) + DaysInMonth(MonthYear(k), MonthIndex(k)) ]
FirstOfMonth == [ d \in CalDays |-> MonthStart(MonthOfDay[d]) ]

\* d.getUTCMonth() and d.getUTCFullYear()
GetUTCMonth(ts) == MonthIndex(MonthOfDay[ts \div 24])
GetUTCFullYear(ts) == MonthYear(MonthOfDay[ts \div 24])

\* the calendar month that month index m (0 = January, any integer) of
\* year y normalises to
MonthOf(y, m) == (y - 2024) * 12 + m - 5

\* Date.UTC(y, m, dt) with the month and the day of the month as numbers:
\* a month outside 0..11 carries into the year, a day outside the month
\* carries into the neighbouring months
MakeDateUTC(y, m, dt) == (MonthStart(MonthOf(y, m)) + dt - 1) * 24

\* d.setUTCMonth(m, dt): day dt of month m of d's year, same time of day
SetUTCMonth(ts, m, dt) == MakeDateUTC(GetUTCFullYear(ts), m, dt) + (ts % 24)

\* d.getUTCDate(): day of the month, 1-based
GetUTCDate(ts) == (ts \div 24) - FirstOfMonth[ts \div 24] + 1

\* mutant: a day below 1 stays on the 1st of the month
SetUTCDate_Mut(ts, dt) ==
    (FirstOfMonth[ts \div 24] + (IF dt < 1 THEN 1 ELSE dt) - 1) * 24 + (ts % 24)

\* d.setUTCDate(dt): day dt of d's month, same time of day; dt below 1 or
\* past the month's end lands in a neighbouring month
SetUTCDate(ts, dt) == (FirstOfMonth[ts \div 24] + dt - 1) * 24 + (ts % 24)

\* d.setUTCDate(d.getUTCDate() + n): n UTC days later, same time of day
AddUTCDays(ts, n) == SetUTCDate(ts, GetUTCDate(ts) + n)

\* d.setDate(d.getDate() + n): n days later on the host's local clock; the
\* instant moves by n days plus the change of the host's UTC offset
AddLocalDays(ts, n, shift) == ts + n * 24 + shift

---------------------------------------------------------------------------
(* CalendarView *)

getStartOfWeekUTC(date) ==
    LET day == GetUTCDay(date)
        mondayIndex == (day + 6) % 7
    IN  ToISODate(AddUTCDays(date, 0 - mondayIndex))

IsActive(status) == status = "PENDING" \/ status = "APPROVED"

\* mutant: a REJECTED leave books its week too
bookedWeeks_Mut(leaves) ==
    { getStartOfWeekUTC(DateUTC(leaves[i].date)) : i \in DOMAIN leaves }

bookedWeeks(leaves) ==
    { getStartOfWeekUTC(DateUTC(leaves[i].date)) :
        i \in { j \in DOMAIN leaves : IsActive(leaves[j].status) } }

\* new Map filled in list order: a later leave replaces an earlier one of the same date
leavesByDate(leaves) ==
    [ d \in { leaves[i].date : i \in DOMAIN leaves } |->
        leaves[CHOOSE i \in DOMAIN leaves :
                  /\ leaves[i].date = d
                  /\ \A j \in DOMAIN leaves : leaves[j].date = d => j <= i] ]

\* mutant: the lead time slips by a day
MinDate_Mut(t, shift) == AddLocalDays(DateUTC(t), LeadDays + 1, shift)

MinDate(t, shift) == AddLocalDays(DateUTC(t), LeadDays, shift)

\* mutant: the week is taken to end a day later (7 - dayOfWeek)
MaxDate_Mut(t, weekRange) ==
    LET dayOfWeek == GetUTCDay(DateUTC(t))
    IN  CASE weekRange = "1_WEEK"  -> AddUTCDays(DateUTC(t), 7 - dayOfWeek)
          [] weekRange = "2_WEEKS" -> AddUTCDays(DateUTC(t), (7 - dayOfWeek) + 7)
          [] weekRange = "1_MONTH" -> AddUTCDays(DateUTC(t), MonthDays)

MaxDate(t, weekRange) ==
    LET dayOfWeek == GetUTCDay(DateUTC(t))
    IN  CASE weekRange = "1_WEEK"  -> AddUTCDays(DateUTC(t), 6 - dayOfWeek)
          [] weekRange = "2_WEEKS" -> AddUTCDays(DateUTC(t), (6 - dayOfWeek) + 7)
          [] weekRange = "1_MONTH" -> AddUTCDays(DateUTC(t), MonthDays)

\* mutant: a day whose snapshot entry shows no free slot stays enabled
DayCell_Mut(d, minDate, maxDate, cfg, slotInfo, byDate, booked) ==
    LET currentDate == DateUTC(d)
        dateString == ToISODate(currentDate)
        hasLeave == dateString \in DOMAIN byDate
        leaveStatus == IF hasLeave THEN byDate[dateString].status ELSE "NONE"
        isPast == currentDate < minDate
        isFutureDisabled == currentDate > maxDate
        isDayDisabledByConfig == GetUTCDay(currentDate) \in cfg.disabledDays
        isWeekBooked ==
            /\ getStartOfWeekUTC(currentDate) \in booked
            /\ (~hasLeave \/ (leaveStatus # "APPROVED" /\ leaveStatus # "PENDING"))
        hasInfo == dateString \in DOMAIN slotInfo
        hasSlots == hasInfo /\ slotInfo[dateString] > 0
        ownLeave == hasLeave /\ leaveStatus # "REJECTED"
    IN  [ isPast |-> isPast,
          isFutureDisabled |-> isFutureDisabled,
          isDayDisabledByConfig |-> isDayDisabledByConfig,
          leaveStatus |-> leaveStatus,
          isWeekBooked |-> isWeekBooked,
          noSlots |-> hasInfo /\ ~hasSlots,
          ownLeave |-> ownLeave,
          isDisabled |-> \/ isPast
                         \/ isFutureDisabled
                         \/ isDayDisabledByConfig
                         \/ isWeekBooked
                         \/ ownLeave ]

\* mutant: the weekdays disabled by the config are not looked at
DayCell_MutConfig(d, minDate, maxDate, cfg, slotInfo, byDate, booked) ==
    LET currentDate == DateUTC(d)
        dateString == ToISODate(currentDate)
        hasLeave == dateString \in DOMAIN byDate
        leaveStatus == IF hasLeave THEN byDate[dateString].status ELSE "NONE"
        isPast == currentDate < minDate
        isFutureDisabled == currentDate > maxDate
        isDayDisabledByConfig == GetUTCDay(currentDate) \in cfg.disabledDays
        isWeekBooked ==
            /\ getStartOfWeekUTC(currentDate) \in booked
            /\ (~hasLeave \/ (leaveStatus # "APPROVED" /\ leaveStatus # "PENDING"))
        hasInfo == dateString \in DOMAIN slotInfo
        hasSlots == hasInfo /\ slotInfo[dateString] > 0
        ownLeave == hasLeave /\ leaveStatus # "REJECTED"
    IN  [ isPast |-> isPast,
          isFutureDisabled |-> isFutureDisabled,
          isDayDisabledByConfig |-> isDayDisabledByConfig,
          leaveStatus |-> leaveStatus,
          isWeekBooked |-> isWeekBooked,
          noSlots |-> hasInfo /\ ~hasSlots,
          ownLeave |-> ownLeave,
          isDisabled |-> \/ isPast
                         \/ isFutureDisabled
                         \/ (hasInfo /\ ~hasSlots)
                         \/ isWeekBooked
                         \/ ownLeave ]

\* mutant: a snapshot entry of zero free slots counts as free
DayCell_MutZero(d, minDate, maxDate, cfg, slotInfo, byDate, booked) ==
    LET currentDate == DateUTC(d)
        dateString == ToISODate(currentDate)
        hasLeave == dateString \in DOMAIN byDate
        leaveStatus == IF hasLeave THEN byDate[dateString].status ELSE "NONE"
        isPast == currentDate < minDate
        isFutureDisabled == currentDate > maxDate
        isDayDisabledByConfig == GetUTCDay(currentDate) \in cfg.disabledDays
        isWeekBooked ==
            /\ getStartOfWeekUTC(currentDate) \in booked
            /\ (~hasLeave \/ (leaveStatus # "APPROVED" /\ leaveStatus # "PENDING"))
        hasInfo == dateString \in DOMAIN slotInfo
        hasSlots == hasInfo /\ slotInfo[dateString] >= 0
        ownLeave == hasLeave /\ leaveStatus # "REJECTED"
    IN  [ isPast |-> isPast,
          isFutureDisabled |-> isFutureDisabled,
          isDayDisabledByConfig |-> isDayDisabledByConfig,
          leaveStatus |-> leaveStatus,
          isWeekBooked |-> isWeekBooked,
          noSlots |-> hasInfo /\ ~hasSlots,
          ownLeave |-> ownLeave,
          isDisabled |-> \/ isPast
                         \/ isFutureDisabled
                         \/ isDayDisabledByConfig
                         \/ (hasInfo /\ ~hasSlots)
                         \/ isWeekBooked
                         \/ ownLeave ]

\* mutant: a day without snapshot entry counts as full
DayCell_MutNoInfo(d, minDate, maxDate, cfg, slotInfo, byDate, booked) ==
    LET currentDate == DateUTC(d)
        dateString == ToISODate(currentDate)
        hasLeave == dateString \in DOMAIN byDate
        leaveStatus == IF hasLeave THEN byDate[dateString].status ELSE "NONE"
        isPast == currentDate < minDate
        isFutureDisabled == currentDate > maxDate
        isDayDisabledByConfig == GetUTCDay(currentDate) \in cfg.disabledDays
        isWeekBooked ==
            /\ getStartOfWeekUTC(currentDate) \in booked
            /\ (~hasLeave \/ (leaveStatus # "APPROVED" /\ leaveStatus # "PENDING"))
        hasInfo == dateString \in DOMAIN slotInfo
        hasSlots == hasInfo /\ slotInfo[dateString] > 0
        ownLeave == hasLeave /\ leaveStatus # "REJECTED"
    IN  [ isPast |-> isPast,
          isFutureDisabled |-> isFutureDisabled,
          isDayDisabledByConfig |-> isDayDisabledByConfig,
          leaveStatus |-> leaveStatus,
          isWeekBooked |-> isWeekBooked,
          noSlots |-> hasInfo /\ ~hasSlots,
          ownLeave |-> ownLeave,
          isDisabled |-> \/ isPast
                         \/ isFutureDisabled
                         \/ isDayDisabledByConfig
                         \/ ~hasSlots
                         \/ isWeekBooked
                         \/ ownLeave ]

\* mutant: the week block skips every date that carries a leave, whatever
\* its status
DayCell_MutWeek(d, minDate, maxDate, cfg, slotInfo, byDate, booked) ==
    LET currentDate == DateUTC(d)
        dateString == ToISODate(currentDate)
        hasLeave == dateString \in DOMAIN byDate
        leaveStatus == IF hasLeave THEN byDate[dateString].status ELSE "NONE"
        isPast == currentDate < minDate
        isFutureDisabled == currentDate > maxDate
        isDayDisabledByConfig == GetUTCDay(currentDate) \in cfg.disabledDays
        isWeekBooked ==
            /\ getStartOfWeekUTC(currentDate) \in booked
            /\ ~hasLeave
        hasInfo == dateString \in DOMAIN slotInfo
        hasSlots == hasInfo /\ slotInfo[dateString] > 0
        ownLeave == hasLeave /\ leaveStatus # "REJECTED"
    IN  [ isPast |-> isPast,
          isFutureDisabled |-> isFutureDisabled,
          isDayDisabledByConfig |-> isDayDisabledByConfig,
          leaveStatus |-> leaveStatus,
          isWeekBooked |-> isWeekBooked,
          noSlots |-> hasInfo /\ ~hasSlots,
          ownLeave |-> ownLeave,
          isDisabled |-> \/ isPast
                         \/ isFutureDisabled
                         \/ isDayDisabledByConfig
                         \/ (hasInfo /\ ~hasSlots)
                         \/ isWeekBooked
                         \/ ownLeave ]

\* one iteration of renderCalendar's loop over the days; minDate, maxDate,
\* byDate (leavesByDate) and booked (bookedWeeks) are computed once per render
DayCell(d, minDate, maxDate, cfg, slotInfo, byDate, booked) ==
    LET currentDate == DateUTC(d)
        dateString == ToISODate(currentDate)
        hasLeave == dateString \in DOMAIN byDate
        leaveStatus == IF hasLeave THEN byDate[dateString].status ELSE "NONE"
        isPast == currentDate < minDate
        isFutureDisabled == currentDate > maxDate
        isDayDisabledByConfig == GetUTCDay(currentDate) \in cfg.disabledDays
        isWeekBooked ==
            /\ getStartOfWeekUTC(currentDate) \in booked
            /\ (~hasLeave \/ (leaveStatus # "APPROVED" /\ leaveStatus # "PENDING"))
        hasInfo == dateString \in DOMAIN slotInfo
        hasSlots == hasInfo /\ slotInfo[dateString] > 0
        ownLeave == hasLeave /\ leaveStatus # "REJECTED"
    IN  [ isPast |-> isPast,
          isFutureDisabled |-> isFutureDisabled,
          isDayDisabledByConfig |-> isDayDisabledByConfig,
          leaveStatus |-> leaveStatus,
          isWeekBooked |-> isWeekBooked,
          noSlots |-> hasInfo /\ ~hasSlots,
          ownLeave |-> ownLeave,
          isDisabled |-> \/ isPast
                         \/ isFutureDisabled
                         \/ isDayDisabledByConfig
                         \/ (hasInfo /\ ~hasSlots)
                         \/ isWeekBooked
                         \/ ownLeave ]

\* availableSlots shown for a day without snapshot entry (daySlotInfo undefined)
NoSlotCount == 0 - 1

\* the aria-label of a day button, as its parts: the date as
\* toLocaleDateString spells it (weekday, year, month, day of month), the
\* "Selected" prefix, the leave status ("NONE": no part), the availability
\* part and the free-slot count it shows
getDayAriaLabel(date, isSelected, isDisabled, daySlotInfo, leaveStatus) ==
    [ date |-> << GetUTCDay(date),
                  MonthYear(MonthOfDay[ToISODate(date)]),
                  MonthIndex(MonthOfDay[ToISODate(date)]),
                  GetUTCDate(date) >>,
      selected |-> isSelected,
      leaveStatus |-> leaveStatus,
      availability |->
          IF isDisabled THEN "Not available"
          ELSE IF daySlotInfo.has THEN "slots available"
          ELSE "Slot information loading",
      availableSlots |->
          IF ~isDisabled /\ daySlotInfo.has THEN daySlotInfo.availableSlots
          ELSE NoSlotCount ]

renderCalendar(t, shift, cfg, slotInfo, leaves) ==
    LET minDate == MinDate(t, shift)
        maxDate == MaxDate(t, cfg.weekRange)
        byDate == leavesByDate(leaves)
        booked == bookedWeeks(leaves)
    IN  [ minDate |-> minDate,
          maxDate |-> maxDate,
          bookedWeeks |-> booked,
          cells |-> [ d \in Dates |->
                        DayCell(d, minDate, maxDate, cfg, slotInfo, byDate, booked) ] ]

\* the aria-label the button of day d carries on screen
AriaLabel(d) ==
    getDayAriaLabel(DateUTC(d),
                    selectedDate = ToISODate(DateUTC(d)),
                    view.cells[d].isDisabled,
                    [ has |-> d \in DOMAIN slotRangeInfo,
                      availableSlots |-> IF d \in DOMAIN slotRangeInfo
                                         THEN slotRangeInfo[d] ELSE NoSlotCount ],
                    view.cells[d].leaveStatus)

\* useState initialisers of CalendarView: the displayed month is the month
\* of now, the focus is on the selected date if there is one, else on today
MountViewDate(t) ==
    MakeDateUTC(GetUTCFullYear(DateUTC(t)), GetUTCMonth(DateUTC(t)), 1)
MountFocusedDate(t, selected) ==
    IF selected # NoDate THEN DateUTC(selected) ELSE DateUTC(t)

\* CalendarView as it mounts
CalendarMounted ==
    /\ viewDate = MountViewDate(today)
    /\ focusedDate = MountFocusedDate(today, selectedDate)

\* the grid holds one button per day of the displayed month: whether the
\* button with data-date d is in the grid
ButtonInGrid(d) ==
    /\ GetUTCMonth(DateUTC(d)) = GetUTCMonth(viewDate)
    /\ GetUTCFullYear(DateUTC(d)) = GetUTCFullYear(viewDate)

\* mutant: the button is disabled only for a date before minDate
ButtonDisabled_Mut(d) ==
    DayCell(d, view.minDate, view.maxDate, config, slotRangeInfo,
            leavesByDate(myLeaves), view.bookedWeeks).isPast

\* the disabled attribute of the button of day d, as renderCalendar sets it
\* from the current props
ButtonDisabled(d) ==
    DayCell(d, view.minDate, view.maxDate, config, slotRangeInfo,
            leavesByDate(myLeaves), view.bookedWeeks).isDisabled

---------------------------------------------------------------------------
(* Inputs *)

LeaveDates == {6, 8}
SnapDates == {6}
DisabledDaysChoices == { {}, {0, 6} }
Configs == [ weekRange : WeekRanges, disabledDays : DisabledDaysChoices ]
LeaveRecs == [ date : LeaveDates, status : LeaveStatus ]
LeaveLists == UNION { [1..n -> LeaveRecs] : n \in 0..MaxLeaves }
RangeSnapshots == UNION { [S -> AvailValues] : S \in SUBSET SnapDates }
DateDetails == UNION { [S -> AvailValues] : S \in SUBSET Shifts }
NotLoaded == [ loaded |-> FALSE, info |-> <<>> ]
Idle == [ pending |-> FALSE, date |-> NoDate, shiftId |-> NoShift ]

(* UserDashboard: the requested slot range *)

\* getMinDate of the dateRange memo: today as a date string
getMinDate == ToISODate(DateUTC(today))

\* getMaxDate of the dateRange memo
getMaxDate(currentConfig) ==
    LET dayOfWeek == GetUTCDay(DateUTC(today))
        maxDate ==
            CASE currentConfig.weekRange = "1_WEEK" ->
                    AddUTCDays(DateUTC(today), 6 - dayOfWeek)
              [] currentConfig.weekRange = "2_WEEKS" ->
                    AddUTCDays(DateUTC(today), (6 - dayOfWeek) + 7)
              [] currentConfig.weekRange = "1_MONTH" ->
                    AddUTCDays(DateUTC(today), MonthDays)
    IN  ToISODate(maxDate)

\* the range whose slot occupancy useSlotInfoForDateRange requests
dateRange == [ startDate |-> getMinDate, endDate |-> getMaxDate(config) ]

\* a date string: kind "ymd" is a string of the form dddd-dd-dd with its
\* three numbers as written, kind "text" a string of another form that Date
\* cannot parse, kind "empty" the empty string
EmptyString == [ kind |-> "empty", y |-> 0, m |-> 0, d |-> 0 ]
\* no call of formatDate yet
NotFormatted == [ kind |-> "none", d |-> 0, m |-> 0, y |-> 0 ]

\* no leave date parsed yet
NotParsed == [ kind |-> "none", time |-> 0 ]

\* the date strings drawn: every year, month and day field around the
\* calendar's months, in range or not, an unparseable text and the empty
\* string
YearFields == {2024, 2025}
MonthFields == 0..13
DayFields == 0..32
DateStrings ==
    { s \in [ kind : {"ymd"}, y : YearFields, m : MonthFields, d : DayFields ] :
        /\ MonthOf(s.y, s.m - 1) - 1 \in CalMonths
        /\ MonthOf(s.y, s.m - 1) + 1 \in CalMonths }
    \cup { [ kind |-> "text", y |-> 0, m |-> 0, d |-> 0 ], EmptyString }

\* strict validation of a date string: the form dddd-dd-dd, a month of the
\* year and a day of that month
StrictValid(s) ==
    /\ s.kind = "ymd"
    /\ s.m \in 1..12
    /\ s.d \in 1..DaysInMonth(s.y, s.m - 1)

\* formatDate(dateString): '' for the empty string; for the form dddd-dd-dd
\* the day, month and year of Date.UTC(year, month - 1, day); for another
\* form new Date(dateString), and the string itself when that is NaN
formatDate(s) ==
    IF s.kind = "empty" THEN [ kind |-> "empty", d |-> 0, m |-> 0, y |-> 0 ]
    ELSE IF s.kind = "ymd"
    THEN LET date == MakeDateUTC(s.y, s.m - 1, s.d)
         IN  [ kind |-> "dmy", d |-> GetUTCDate(date),
               m |-> GetUTCMonth(date) + 1, y |-> GetUTCFullYear(date) ]
    ELSE [ kind |-> "same", d |-> s.d, m |-> s.m, y |-> s.y ]

\* the Date bookedWeeks builds from leave.date: split('-').map(Number) and
\* Date.UTC(year, month - 1, day); a string of another form gives NaN
ParseLeaveDate(s) ==
    IF s.kind = "ymd"
    THEN [ kind |-> "date", time |-> MakeDateUTC(s.y, s.m - 1, s.d) ]
    ELSE [ kind |-> "NaN", time |-> 0 ]

\* no date string formatted or parsed yet
InitDateVars ==
    /\ formatDateInput = EmptyString
    /\ formatted = NotFormatted
    /\ leaveDate = NotParsed

\* no leave id: rejectLeaveId null
NoLeave == 0

\* no status-change request sent yet
NoRequest == [ pending |-> FALSE, bulk |-> FALSE, leaveIds |-> {}, status |-> "" ]

\* LeaveManagement as it mounts, over the list of all leaves
LeaveManagementMounted ==
    /\ filterStatus = "PENDING"
    /\ searchQuery = << >>
    /\ selectedLeaves = {}
    /\ rejectLeaveId = NoLeave
    /\ adminRequest = NoRequest

\* a ShiftRow as it mounts: no modal, nothing chosen, no request sent
ShiftRowMounted ==
    /\ showBulkModal = NoShift
    /\ bulkChangeMode = "add"
    /\ bulkShiftId = NoShift
    /\ selectedActionUsers = {}
    /\ shiftRequests = << >>

\* the other pages and utilities at rest
InitPages ==
    /\ InitDateVars
    /\ allLeaves = serverLeaves
    /\ LeaveManagementMounted
    /\ weekShifts = << >>
    /\ ShiftRowMounted

---------------------------------------------------------------------------
(* App: the session.  The current user lives in App's state and, after a   *)
(* login with 'Remember me', in localStorage as JSON.                      *)

\* null: no current user
NoUser == [ id |-> "null", name |-> "null", role |-> "null" ]

StaffUser == [ id |-> "u1", name |-> "Asha", role |-> "USER" ]
AdminUser == [ id |-> "a1", name |-> "Admin", role |-> "ADMIN" ]

\* the users the server may answer a login with
Users == {StaffUser, AdminUser}

\* localStorage.getItem of an absent item
NoItem == << >>
NoTheme == ""

\* JSON.stringify(user): the text, as its keys and values in order
JSONStringify(user) == <<"id", user.id, "name", user.name, "role", user.role>>

\* JSON.parse(savedUser)
JSONParse(text) == [ id |-> text[2], name |-> text[4], role |-> text[6] ]

\* loginError null
NoError == ""

\* no login request in flight
NoLogin == [ pending |-> FALSE, rememberMe |-> FALSE ]

\* Auth as it mounts
AuthMounted ==
    /\ loginMobile = ""
    /\ loginPassword = ""
    /\ rememberMe = FALSE
    /\ loginError = NoError
    /\ loginRequest = NoLogin

\* the page at `hash` with `user` logged in without 'Remember me'
LoggedIn(user, hash) ==
    /\ appMounted = TRUE
    /\ currentUser = user
    /\ storedUser = NoItem
    /\ theme = "light"
    /\ storedTheme = "light"
    /\ route = hash
    /\ AuthMounted

---------------------------------------------------------------------------
(* The calendar under every input.  Every weekday of today, host time-zone *)
(* shift and config is drawn; leave lists and range snapshots are drawn on *)
(* two reference days, a Sunday and a Tuesday.                             *)

RenderTodays == {0, 2}

InitRender ==
    /\ today \in Todays
    /\ tzShift \in TzShifts
    /\ config \in Configs
    /\ myLeaves \in LeaveLists
    /\ serverLeaves = myLeaves
    /\ slotRangeInfo \in RangeSnapshots
    /\ today \in RenderTodays \/ (myLeaves = <<>> /\ slotRangeInfo = <<>>)
    /\ slotInfoForDate = NotLoaded
    /\ stale = {}
    /\ selectedDate = NoDate
    /\ selectedShift = NoShift
    /\ mutation = Idle
    /\ toast = "none"
    /\ view = renderCalendar(today, tzShift, config, slotRangeInfo, myLeaves)
    /\ CalendarMounted
    /\ LoggedIn(StaffUser, "")
    /\ InitPages

\* useConfig delivers a config saved by the administrator; the calendar
\* renders again.  When the end of the requested range moves, the range
\* query has a new key and no data: the dashboard shows its skeleton while
\* it loads, and CalendarView mounts anew, the selected date being kept by
\* UserDashboard
ConfigRefetched ==
    /\ ~mutation.pending
    /\ config' \in Configs \ {config}
    /\ view' = renderCalendar(today, tzShift, config', slotRangeInfo, myLeaves)
    /\ IF getMaxDate(config') # getMaxDate(config)
       THEN /\ viewDate' = MountViewDate(today)
            /\ focusedDate' = MountFocusedDate(today, selectedDate)
       ELSE UNCHANGED calendarVars
    /\ UNCHANGED <<today, tzShift, serverLeaves, myLeaves, slotRangeInfo,
                   slotInfoForDate, stale, selectedDate, selectedShift,
                   mutation, toast>>
    /\ UNCHANGED pageVars

NextRender == ConfigRefetched

SpecRender == InitRender /\ [][NextRender]_vars

---------------------------------------------------------------------------
(* UserDashboard: the loaded dashboard of one user, on Sunday 2024-06-09 *)

\* the user whose dashboard this is (user.id)
UserId == "u1"

\* the entries of the query cache, named as in the variable stale: the
\* user's leave list, the list of all leaves, the config, the range
\* snapshot and the single-date detail
CacheNames == {"leaves", "all", "config", "range", "date"}

\* the queryKey of each entry
QueryKey(name) ==
    CASE name = "leaves" -> << "leaves", "user", UserId >>
      [] name = "all"    -> << "leaves", "all" >>
      [] name = "config" -> << "config" >>
      [] name = "range"  -> << "slots", "range", dateRange >>
      [] name = "date"   -> << "slots", "date", selectedDate >>

\* whether the entry holds data; the single-date detail does once loaded
Cached(name) == name # "date" \/ slotInfoForDate.loaded

IsPrefix(p, k) == Len(p) <= Len(k) /\ \A i \in 1..Len(p) : p[i] = k[i]

\* mutant: only the entry whose key is exactly queryKey is invalidated
invalidateQueries_Mut(queryKey) ==
    { n \in CacheNames : Cached(n) /\ queryKey = QueryKey(n) }

\* queryClient.invalidateQueries({ queryKey }): the cached entries whose key
\* starts with queryKey
invalidateQueries(queryKey) ==
    { n \in CacheNames : Cached(n) /\ IsPrefix(queryKey, QueryKey(n)) }

Init ==
    /\ today = 0
    /\ tzShift = 0
    /\ config \in { c \in Configs : c.weekRange = "1_WEEK" }
    /\ serverLeaves \in { l \in LeaveLists : Len(l) <= 1 }
    /\ myLeaves = serverLeaves
    /\ slotRangeInfo \in RangeSnapshots
    /\ slotInfoForDate = NotLoaded
    /\ stale = {}
    /\ selectedDate = NoDate
    /\ selectedShift = NoShift
    /\ mutation = Idle
    /\ toast = "none"
    /\ view = renderCalendar(today, tzShift, config, slotRangeInfo, myLeaves)
    /\ CalendarMounted
    /\ LoggedIn(StaffUser, "")
    /\ InitPages

\* onDateSelect of CalendarView, which is handleDateSelect of UserDashboard:
\* the date becomes the selected date; the effect on selectedDate, which
\* runs when the value has changed, moves the focus to it
onDateSelect(d) ==
    /\ selectedDate' = d
    /\ selectedShift' = NoShift
    /\ slotInfoForDate' = NotLoaded
    /\ stale' = stale \ {"date"}
    /\ focusedDate' = IF d # selectedDate THEN DateUTC(d) ELSE focusedDate
    /\ UNCHANGED <<today, tzShift, config, serverLeaves, myLeaves, slotRangeInfo,
                   mutation, toast, view>>
    /\ UNCHANGED <<viewDate, pageVars>>

\* a click on the day button of date d, which the browser delivers only when
\* the button is in the grid and not disabled
handleDateSelect(d) ==
    /\ ButtonInGrid(d)
    /\ ~view.cells[d].isDisabled
    /\ onDateSelect(d)

\* changeMonth(offset): the displayed month moves by offset months and the
\* focus goes to its first day
changeMonth(offset) ==
    LET newViewDate == SetUTCMonth(viewDate, GetUTCMonth(viewDate) + offset, 1)
    IN  /\ MonthOfDay[ToISODate(viewDate)] + offset \in CalMonths
        /\ viewDate' = newViewDate
        /\ focusedDate' = MakeDateUTC(GetUTCFullYear(newViewDate),
                                      GetUTCMonth(newViewDate), 1)

\* a click on the previous-month or the next-month button
MonthButtonClicked(offset) ==
    /\ changeMonth(offset)
    /\ UNCHANGED <<today, tzShift, config, serverLeaves, myLeaves, slotRangeInfo,
                   slotInfoForDate, stale, selectedDate, selectedShift,
                   mutation, toast, view, pageVars>>

Keys == {"ArrowRight", "ArrowLeft", "ArrowUp", "ArrowDown", "PageUp",
         "PageDown", "Home", "End", "Enter", " ", "Tab"}

\* handleKeyDown of the grid, for key e.key with or without Shift
handleKeyDown(key, shiftKey) ==
    LET newFocusedDate ==
            CASE key = "ArrowRight" -> AddUTCDays(focusedDate, 1)
              [] key = "ArrowLeft"  -> AddUTCDays(focusedDate, 0 - 1)
              [] key = "ArrowUp"    -> AddUTCDays(focusedDate, 0 - 7)
              [] key = "ArrowDown"  -> AddUTCDays(focusedDate, 7)
              [] key = "Home" -> AddUTCDays(focusedDate, 0 - GetUTCDay(focusedDate))
              [] key = "End"  -> AddUTCDays(focusedDate, 6 - GetUTCDay(focusedDate))
              [] OTHER -> focusedDate
        focusedString == ToISODate(focusedDate)
    IN  CASE key = "PageUp" ->
               MonthButtonClicked(IF shiftKey THEN 0 - 12 ELSE 0 - 1)
          [] key = "PageDown" ->
               MonthButtonClicked(IF shiftKey THEN 12 ELSE 1)
          [] key \in {"Enter", " "} ->
               IF ButtonInGrid(focusedString) /\ ~ButtonDisabled(focusedString)
               THEN onDateSelect(focusedString)
               ELSE UNCHANGED vars
          [] OTHER ->
               /\ ToISODate(newFocusedDate) \in CalDays
               /\ viewDate' =
                      IF \/ GetUTCMonth(newFocusedDate) # GetUTCMonth(viewDate)
                         \/ GetUTCFullYear(newFocusedDate) # GetUTCFullYear(viewDate)
                      THEN MakeDateUTC(GetUTCFullYear(newFocusedDate),
                                       GetUTCMonth(newFocusedDate), 1)
                      ELSE viewDate
               /\ focusedDate' = newFocusedDate
               /\ UNCHANGED <<today, tzShift, config, serverLeaves, myLeaves,
                              slotRangeInfo, slotInfoForDate, stale, selectedDate,
                              selectedShift, mutation, toast, view, pageVars>>

\* useSlotInfoForDate delivers the detail of the selected date, on first load
\* or after an invalidation
SlotInfoForDateFetched ==
    /\ selectedDate # NoDate
    /\ ~slotInfoForDate.loaded \/ "date" \in stale
    /\ \E info \in DateDetails :
          slotInfoForDate' = [ loaded |-> TRUE, info |-> info ]
    /\ stale' = stale \ {"date"}
    /\ UNCHANGED <<today, tzShift, config, serverLeaves, myLeaves, slotRangeInfo,
                   selectedDate, selectedShift, mutation, toast, view>>
    /\ UNCHANGED <<calendarVars, pageVars>>

\* useSlotInfoForDateRange delivers a new range snapshot after an invalidation
SlotRangeRefetched ==
    /\ "range" \in stale
    /\ slotRangeInfo' \in RangeSnapshots
    /\ stale' = stale \ {"range"}
    /\ view' = renderCalendar(today, tzShift, config, slotRangeInfo', myLeaves)
    /\ UNCHANGED <<today, tzShift, config, serverLeaves, myLeaves, slotInfoForDate,
                   selectedDate, selectedShift, mutation, toast>>
    /\ UNCHANGED <<calendarVars, pageVars>>

\* useUserLeaves delivers the server's list after an invalidation
LeavesRefetched ==
    /\ "leaves" \in stale
    /\ myLeaves' = serverLeaves
    /\ stale' = stale \ {"leaves"}
    /\ view' = renderCalendar(today, tzShift, config, slotRangeInfo, myLeaves')
    /\ UNCHANGED <<today, tzShift, config, serverLeaves, slotRangeInfo,
                   slotInfoForDate, selectedDate, selectedShift, mutation, toast>>
    /\ UNCHANGED <<calendarVars, pageVars>>

\* mutant: only a shift whose entry shows no free slot is disabled
OptionDisabled_Mut(s) ==
    s \in DOMAIN slotInfoForDate.info /\ slotInfoForDate.info[s] <= 0

\* whether the option of shift s in the shift Select is disabled
OptionDisabled(s) ==
    ~(s \in DOMAIN slotInfoForDate.info) \/ slotInfoForDate.info[s] <= 0

\* whether the shift Select as a whole is disabled
SelectDisabled ==
    \/ ~slotInfoForDate.loaded
    \/ \A s \in DOMAIN slotInfoForDate.info : slotInfoForDate.info[s] <= 0

\* onChange of the shift Select: the user picks an enabled option, or the
\* placeholder option whose value is ''
setSelectedShift(s) ==
    /\ selectedDate # NoDate
    /\ ~SelectDisabled
    /\ s = NoShift \/ ~OptionDisabled(s)
    /\ s # selectedShift
    /\ selectedShift' = s
    /\ UNCHANGED <<today, tzShift, config, serverLeaves, myLeaves, slotRangeInfo,
                   slotInfoForDate, stale, selectedDate, mutation, toast, view>>
    /\ UNCHANGED <<calendarVars, pageVars>>

\* mutant: the guard no longer looks at the chosen shift's free slots
GuardPasses_Mut ==
    /\ selectedDate # NoDate
    /\ selectedShift # NoShift
    /\ slotInfoForDate.loaded
    /\ selectedShift \in DOMAIN slotInfoForDate.info

\* the submission guard: the conditions under which handleApplyLeave goes on
\* to issue the request
GuardPasses ==
    /\ selectedDate # NoDate
    /\ selectedShift # NoShift
    /\ slotInfoForDate.loaded
    /\ selectedShift \in DOMAIN slotInfoForDate.info
    /\ slotInfoForDate.info[selectedShift] > 0

\* the body of handleApplyLeave
handleApplyLeave ==
    /\ IF selectedDate = NoDate \/ selectedShift = NoShift
         THEN /\ toast' = "error: select a date and a shift"
              /\ UNCHANGED mutation
         ELSE IF ~GuardPasses
         THEN /\ toast' = "error: no available slots"
              /\ UNCHANGED mutation
         ELSE /\ mutation' = [ pending |-> TRUE, date |-> selectedDate,
                               shiftId |-> selectedShift ]
              /\ toast' = "loading"
    /\ UNCHANGED <<today, tzShift, config, serverLeaves, myLeaves, slotRangeInfo,
                   slotInfoForDate, stale, selectedDate, selectedShift, view>>
    /\ UNCHANGED <<calendarVars, pageVars>>

\* the form is rendered while a date is selected, and its submit button is
\* disabled while a request is pending or no shift is chosen
SubmitForm ==
    /\ selectedDate # NoDate
    /\ ~mutation.pending
    /\ selectedShift # NoShift
    /\ handleApplyLeave

\* the server accepts the request: onSuccess of useCreateLeaveMutation
\* invalidates the user's leave list and every slot query, then the success
\* callback of toast.promise clears the selection
CreateLeaveSucceeded ==
    /\ mutation.pending
    /\ Len(serverLeaves) < MaxLeaves
    /\ serverLeaves' = Append(serverLeaves,
                              [ date |-> mutation.date, status |-> "PENDING" ])
    /\ stale' = (stale \cup invalidateQueries(<< "leaves", "user", UserId >>)
                      \cup invalidateQueries(<< "slots" >>)) \ {"date"}
    /\ selectedDate' = NoDate
    /\ selectedShift' = NoShift
    /\ slotInfoForDate' = NotLoaded
    /\ mutation' = Idle
    /\ toast' = "success"
    /\ UNCHANGED <<today, tzShift, config, myLeaves, slotRangeInfo, view>>
    /\ UNCHANGED <<calendarVars, pageVars>>

\* the server rejects the request, or the network fails
CreateLeaveFailed ==
    /\ mutation.pending
    /\ mutation' = Idle
    /\ toast' = "error: failed to submit"
    /\ UNCHANGED <<today, tzShift, config, serverLeaves, myLeaves, slotRangeInfo,
                   slotInfoForDate, stale, selectedDate, selectedShift, view>>
    /\ UNCHANGED <<calendarVars, pageVars>>

Next ==
    \/ \E d \in Dates : handleDateSelect(d)
    \/ SlotInfoForDateFetched
    \/ SlotRangeRefetched
    \/ LeavesRefetched
    \/ \E s \in Shifts \cup {NoShift} : setSelectedShift(s)
    \/ SubmitForm
    \/ CreateLeaveSucceeded
    \/ CreateLeaveFailed

Spec == Init /\ [][Next]_vars

---------------------------------------------------------------------------
(* The submission guard under every input: handleApplyLeave is run on every   *)
(* combination of selected date, chosen shift and single-date detail.  With   *)
(* no date selected there is no form, hence no shift and no detail.           *)

InitGuard ==
    /\ today = 0
    /\ tzShift = 0
    /\ config \in { c \in Configs : c.weekRange = "1_WEEK" }
    /\ serverLeaves = <<>>
    /\ myLeaves = <<>>
    /\ slotRangeInfo = <<>>
    /\ selectedDate \in Dates \cup {NoDate}
    /\ selectedShift \in Shifts \cup {NoShift}
    /\ slotInfoForDate \in
          {NotLoaded} \cup { [ loaded |-> TRUE, info |-> i ] : i \in DateDetails }
    /\ selectedDate = NoDate => (selectedShift = NoShift /\ slotInfoForDate = NotLoaded)
    /\ stale = {}
    /\ mutation = Idle
    /\ toast = "none"
    /\ view = renderCalendar(today, tzShift, config, slotRangeInfo, myLeaves)
    /\ CalendarMounted
    /\ LoggedIn(StaffUser, "")
    /\ InitPages

NextGuard == handleApplyLeave

SpecGuard == InitGuard /\ [][NextGuard]_vars

---------------------------------------------------------------------------
(* The other mutations of the client: cancelling a leave (LeaveHistory),    *)
(* changing the status of one or several leaves and saving the config       *)
(* (AdminDashboard).  Each action is the request accepted by the server     *)
(* followed by the mutation's onSuccess and the success toast.              *)

\* the sequence without its j-th element
RemoveAt(seq, j) ==
    [ k \in 1..(Len(seq) - 1) |-> IF k < j THEN seq[k] ELSE seq[k + 1] ]

\* mutant: the cancel button is offered for every leave that is not REJECTED
isCancellable_Mut(leave, onCancel) ==
    leave.status # "REJECTED" /\ onCancel

\* LeaveItem: whether the row of the leave carries the cancel button;
\* onCancel tells whether the page passes a cancel handler
isCancellable(leave, onCancel) ==
    leave.status = "PENDING" /\ onCancel

\* the user presses the cancel button of a row of the leave history, which
\* passes handleCancelLeave as onCancel; the server deletes the leave
CancelLeaveSucceeded ==
    /\ \E i \in DOMAIN myLeaves, j \in DOMAIN serverLeaves :
          /\ isCancellable(myLeaves[i], TRUE)
          /\ serverLeaves[j] = myLeaves[i]
          /\ serverLeaves' = RemoveAt(serverLeaves, j)
    /\ stale' = stale \cup invalidateQueries(<< "leaves", "user", UserId >>)
                      \cup invalidateQueries(<< "leaves", "all" >>)
                      \cup invalidateQueries(<< "slots" >>)
    /\ toast' = "success: cancelled"
    /\ UNCHANGED <<today, tzShift, config, myLeaves, slotRangeInfo,
                   slotInfoForDate, selectedDate, selectedShift, mutation, view>>
    /\ UNCHANGED <<calendarVars, pageVars>>

\* the administrator approves or rejects one PENDING leave
UpdateLeaveStatusSucceeded(j, status) ==
    /\ j \in DOMAIN serverLeaves
    /\ serverLeaves[j].status = "PENDING"
    /\ serverLeaves' = [ serverLeaves EXCEPT ![j].status = status ]
    /\ stale' = stale \cup invalidateQueries(<< "leaves", "all" >>)
                      \cup invalidateQueries(<< "slots" >>)
    /\ toast' = "success: status updated"
    /\ UNCHANGED <<today, tzShift, config, myLeaves, slotRangeInfo,
                   slotInfoForDate, selectedDate, selectedShift, mutation, view>>
    /\ UNCHANGED <<calendarVars, pageVars>>

\* the administrator approves or rejects the selected PENDING leaves at once
UpdateMultipleLeaveStatusesSucceeded(leaveIds, status) ==
    /\ leaveIds # {}
    /\ leaveIds \subseteq DOMAIN serverLeaves
    /\ \A j \in leaveIds : serverLeaves[j].status = "PENDING"
    /\ serverLeaves' =
          [ j \in DOMAIN serverLeaves |->
              IF j \in leaveIds THEN [ serverLeaves[j] EXCEPT !.status = status ]
                                ELSE serverLeaves[j] ]
    /\ stale' = stale \cup invalidateQueries(<< "leaves", "all" >>)
                      \cup invalidateQueries(<< "slots" >>)
    /\ toast' = "success: statuses updated"
    /\ UNCHANGED <<today, tzShift, config, myLeaves, slotRangeInfo,
                   slotInfoForDate, selectedDate, selectedShift, mutation, view>>
    /\ UNCHANGED <<calendarVars, pageVars>>

\* the administrator saves the settings; the client keeps its config until
\* the invalidated config query is fetched again
UpdateConfigSucceeded ==
    /\ stale' = stale \cup invalidateQueries(<< "config" >>)
                      \cup invalidateQueries(<< "slots" >>)
    /\ toast' = "success: configuration saved"
    /\ UNCHANGED <<today, tzShift, config, serverLeaves, myLeaves, slotRangeInfo,
                   slotInfoForDate, selectedDate, selectedShift, mutation, view>>
    /\ UNCHANGED <<calendarVars, pageVars>>

\* the query cache of a browser in which every query has been fetched, the
\* form open on Thursday 2024-06-13 with shift s1 chosen, a create request
\* in flight or not
PendingLeaveLists ==
    { l \in LeaveLists :
        /\ \A i \in DOMAIN l : l[i].status = "PENDING"
        /\ \A i, j \in DOMAIN l : i < j => l[i].date < l[j].date }

InitCache ==
    /\ today = 0
    /\ tzShift = 0
    /\ config = [ weekRange |-> "1_WEEK", disabledDays |-> {} ]
    /\ serverLeaves \in PendingLeaveLists
    /\ myLeaves = serverLeaves
    /\ slotRangeInfo = << >>
    /\ selectedDate = 4
    /\ selectedShift = "s1"
    /\ slotInfoForDate \in {NotLoaded, [ loaded |-> TRUE, info |-> [ s \in Shifts |-> 1 ] ]}
    /\ stale = {}
    /\ mutation \in {Idle, [ pending |-> TRUE, date |-> 4, shiftId |-> "s1" ]}
    /\ toast = "none"
    /\ view = renderCalendar(today, tzShift, config, slotRangeInfo, myLeaves)
    /\ CalendarMounted
    /\ LoggedIn(StaffUser, "")
    /\ InitPages

NextCache ==
    \/ CreateLeaveSucceeded
    \/ CancelLeaveSucceeded
    \/ \E j \in 1..MaxLeaves, status \in {"APPROVED", "REJECTED"} :
          UpdateLeaveStatusSucceeded(j, status)
    \/ \E leaveIds \in SUBSET (1..MaxLeaves), status \in {"APPROVED", "REJECTED"} :
          UpdateMultipleLeaveStatusesSucceeded(leaveIds, status)
    \/ UpdateConfigSucceeded
    \/ SlotRangeRefetched
    \/ SlotInfoForDateFetched

SpecCache == InitCache /\ [][NextCache]_vars

---------------------------------------------------------------------------
(* The calendar under the keyboard and the mouse: the user of a dashboard   *)
(* loaded on Sunday 2024-06-09 moves the focus, changes the month and       *)
(* selects dates, while the administrator changes the config.               *)

InitCalendar ==
    /\ today = 0
    /\ tzShift = 0
    /\ config \in Configs
    /\ serverLeaves = << >>
    /\ myLeaves = << >>
    /\ slotRangeInfo = << >>
    /\ slotInfoForDate = NotLoaded
    /\ stale = {}
    /\ selectedDate = NoDate
    /\ selectedShift = NoShift
    /\ mutation = Idle
    /\ toast = "none"
    /\ view = renderCalendar(today, tzShift, config, slotRangeInfo, myLeaves)
    /\ CalendarMounted
    /\ LoggedIn(StaffUser, "")
    /\ InitPages

NextCalendar ==
    \/ \E d \in Dates : handleDateSelect(d)
    \/ \E key \in Keys :
          \E shiftKey \in (IF key \in {"PageUp", "PageDown"} THEN BOOLEAN ELSE {FALSE}) :
              handleKeyDown(key, shiftKey)
    \/ \E offset \in {0 - 1, 1} : MonthButtonClicked(offset)
    \/ ConfigRefetched

SpecCalendar == InitCalendar /\ [][NextCalendar]_vars

---------------------------------------------------------------------------
(* Date strings: formatDate and the parsing of a leave's date, applied to   *)
(* every date string drawn.                                                 *)

\* a page renders formatDate(dateString)
FormatDateCalled ==
    /\ formatted' = formatDate(formatDateInput)
    /\ UNCHANGED <<today, tzShift, config, serverLeaves, myLeaves, slotRangeInfo,
                   slotInfoForDate, stale, selectedDate, selectedShift,
                   mutation, toast, view, calendarVars, formatDateInput, leaveDate,
                   adminVars, shiftVars, sessionVars>>

\* the calendar's bookedWeeks memo parses the string as the date of a leave
LeaveDateParsed ==
    /\ leaveDate' = ParseLeaveDate(formatDateInput)
    /\ UNCHANGED <<today, tzShift, config, serverLeaves, myLeaves, slotRangeInfo,
                   slotInfoForDate, stale, selectedDate, selectedShift,
                   mutation, toast, view, calendarVars, formatDateInput, formatted,
                   adminVars, shiftVars, sessionVars>>

InitDate ==
    /\ today = 0
    /\ tzShift = 0
    /\ config = [ weekRange |-> "1_WEEK", disabledDays |-> {} ]
    /\ serverLeaves = << >>
    /\ myLeaves = << >>
    /\ slotRangeInfo = << >>
    /\ slotInfoForDate = NotLoaded
    /\ stale = {}
    /\ selectedDate = NoDate
    /\ selectedShift = NoShift
    /\ mutation = Idle
    /\ toast = "none"
    /\ view = renderCalendar(today, tzShift, config, slotRangeInfo, myLeaves)
    /\ CalendarMounted
    /\ LoggedIn(StaffUser, "")
    /\ formatDateInput \in DateStrings
    /\ formatted = NotFormatted
    /\ leaveDate = NotParsed
    /\ allLeaves = serverLeaves
    /\ LeaveManagementMounted
    /\ weekShifts = << >>
    /\ ShiftRowMounted

NextDate == FormatDateCalled \/ LeaveDateParsed

SpecDate == InitDate /\ [][NextDate]_vars

---------------------------------------------------------------------------
(* AdminDashboard: LeaveManagement over the list of all leaves.  The id of  *)
(* a leave is its position in the server's list; every leave belongs to    *)
(* the one user, whose name and mobile number the rows show.  Strings are   *)
(* sequences of characters.                                                 *)

UserName == << "A", "n", "n" >>
UserMobile == << "5", "5" >>

\* the texts typed into the search box
SearchQueries == { << >>, << "a", "N" >>, << "5" >>, << "b" >> }
FilterStatuses == LeaveStatus \cup {"ALL"}

\* String.prototype.toLowerCase over the characters drawn
ToLowerCase(str) ==
    [ i \in DOMAIN str |->
        CASE str[i] = "A" -> "a"
          [] str[i] = "N" -> "n"
          [] OTHER -> str[i] ]

\* str.includes(q): q occurs in str as a substring
Includes(str, q) ==
    \E i \in 0..(Len(str) - Len(q)) : SubSeq(str, i + 1, i + Len(q)) = q

\* the filter of filteredLeaves
LeaveMatches(l, status, query) ==
    LET matchesStatus == status = "ALL" \/ l.status = status
        matchesSearch == \/ Includes(ToLowerCase(UserName), ToLowerCase(query))
                         \/ Includes(UserMobile, query)
    IN  matchesStatus /\ matchesSearch

\* filteredLeaves: the ids of the rows displayed (their order, by date,
\* plays no part in what follows)
filteredLeaves ==
    { id \in DOMAIN allLeaves : LeaveMatches(allLeaves[id], filterStatus, searchQuery) }

\* selectableLeaves: the displayed rows that carry a checkbox
selectableLeaves ==
    { id \in filteredLeaves : allLeaves[id].status = "PENDING" }

\* isActionLoading: a status mutation is pending (the buttons are disabled)
isActionLoading == adminRequest.pending

\* the reject dialog is open; showRejectDialog and rejectLeaveId are set and
\* cleared together.  The dialog covers the page
showRejectDialog == rejectLeaveId # NoLeave

\* the frame of a step of LeaveManagement
AdminFrame ==
    UNCHANGED <<today, tzShift, config, serverLeaves, myLeaves, slotRangeInfo,
                slotInfoForDate, stale, selectedDate, selectedShift, mutation,
                toast, view, calendarVars, dateVars, shiftVars, sessionVars,
                   allLeaves>>

\* AdminDashboard.handleStatusChange: the request goes out
handleStatusChange(leaveId, status) ==
    adminRequest' = [ pending |-> TRUE, bulk |-> FALSE,
                      leaveIds |-> {leaveId}, status |-> status ]

\* AdminDashboard.handleBulkStatusChange
handleBulkStatusChange(leaveIds, status) ==
    adminRequest' = [ pending |-> TRUE, bulk |-> TRUE,
                      leaveIds |-> leaveIds, status |-> status ]

\* the Approve button of a row, which only a PENDING row carries
ApproveClicked(id) ==
    /\ ~showRejectDialog
    /\ id \in filteredLeaves
    /\ allLeaves[id].status = "PENDING"
    /\ ~isActionLoading
    /\ handleStatusChange(id, "APPROVED")
    /\ UNCHANGED <<filterStatus, searchQuery, selectedLeaves, rejectLeaveId>>
    /\ AdminFrame

\* the Reject button of a PENDING row or the Revoke button of an APPROVED row
handleRejectClick(id) ==
    /\ ~showRejectDialog
    /\ id \in filteredLeaves
    /\ allLeaves[id].status \in {"PENDING", "APPROVED"}
    /\ ~isActionLoading
    /\ rejectLeaveId' = id
    /\ UNCHANGED <<filterStatus, searchQuery, selectedLeaves, adminRequest>>
    /\ AdminFrame

\* Confirm Rejection in the dialog
handleConfirmReject ==
    /\ showRejectDialog
    /\ ~isActionLoading
    /\ handleStatusChange(rejectLeaveId, "REJECTED")
    /\ rejectLeaveId' = NoLeave
    /\ UNCHANGED <<filterStatus, searchQuery, selectedLeaves>>
    /\ AdminFrame

\* Cancel in the dialog
handleCancelReject ==
    /\ showRejectDialog
    /\ ~isActionLoading
    /\ rejectLeaveId' = NoLeave
    /\ UNCHANGED <<filterStatus, searchQuery, selectedLeaves, adminRequest>>
    /\ AdminFrame

\* the checkbox of a displayed PENDING row
handleToggleSelect(leaveId) ==
    /\ ~showRejectDialog
    /\ leaveId \in selectableLeaves
    /\ selectedLeaves' = IF leaveId \in selectedLeaves
                         THEN selectedLeaves \ {leaveId}
                         ELSE selectedLeaves \cup {leaveId}
    /\ UNCHANGED <<filterStatus, searchQuery, rejectLeaveId, adminRequest>>
    /\ AdminFrame

\* the checkbox "Select all pending", shown while a row is selectable
handleToggleSelectAll ==
    /\ ~showRejectDialog
    /\ selectableLeaves # {}
    /\ selectedLeaves' = IF Cardinality(selectedLeaves) = Cardinality(selectableLeaves)
                         THEN {}
                         ELSE selectableLeaves
    /\ UNCHANGED <<filterStatus, searchQuery, rejectLeaveId, adminRequest>>
    /\ AdminFrame

\* Approve Selected / Reject Selected, shown while the selection is not empty
handleBulkAction(status) ==
    /\ ~showRejectDialog
    /\ selectedLeaves # {}
    /\ ~isActionLoading
    /\ handleBulkStatusChange(selectedLeaves, status)
    /\ selectedLeaves' = {}
    /\ UNCHANGED <<filterStatus, searchQuery, rejectLeaveId>>
    /\ AdminFrame

\* the status Select; the effect on filterStatus empties the selection
setFilterStatus(status) ==
    /\ ~showRejectDialog
    /\ status # filterStatus
    /\ filterStatus' = status
    /\ selectedLeaves' = {}
    /\ UNCHANGED <<searchQuery, rejectLeaveId, adminRequest>>
    /\ AdminFrame

\* typing into the search box
setSearchQuery(query) ==
    /\ ~showRejectDialog
    /\ query # searchQuery
    /\ searchQuery' = query
    /\ UNCHANGED <<filterStatus, selectedLeaves, rejectLeaveId, adminRequest>>
    /\ AdminFrame

\* the server accepts the request in flight and sets the status of the
\* leaves it names; onSuccess of the mutation invalidates the list of all
\* leaves and the slot queries
AdminRequestSucceeded ==
    /\ adminRequest.pending
    /\ adminRequest.leaveIds \subseteq DOMAIN serverLeaves
    /\ serverLeaves' =
          [ j \in DOMAIN serverLeaves |->
              IF j \in adminRequest.leaveIds
              THEN [ serverLeaves[j] EXCEPT !.status = adminRequest.status ]
              ELSE serverLeaves[j] ]
    /\ stale' = stale \cup invalidateQueries(<< "leaves", "all" >>)
                      \cup invalidateQueries(<< "slots" >>)
    /\ toast' = IF adminRequest.bulk THEN "success: statuses updated"
                                     ELSE "success: status updated"
    /\ adminRequest' = [ adminRequest EXCEPT !.pending = FALSE ]
    /\ UNCHANGED <<today, tzShift, config, myLeaves, slotRangeInfo,
                   slotInfoForDate, selectedDate, selectedShift, mutation, view,
                   calendarVars, dateVars, shiftVars, sessionVars,
                   allLeaves, filterStatus, searchQuery,
                   selectedLeaves, rejectLeaveId>>

\* the server refuses the request in flight, or the network fails
AdminRequestFailed ==
    /\ adminRequest.pending
    /\ toast' = "error: failed to update"
    /\ adminRequest' = [ adminRequest EXCEPT !.pending = FALSE ]
    /\ UNCHANGED <<today, tzShift, config, serverLeaves, myLeaves, slotRangeInfo,
                   slotInfoForDate, stale, selectedDate, selectedShift, mutation,
                   view, calendarVars, dateVars, shiftVars, sessionVars,
                   allLeaves, filterStatus,
                   searchQuery, selectedLeaves, rejectLeaveId>>

\* useAllLeaves delivers the server's list after an invalidation
AllLeavesRefetched ==
    /\ "all" \in stale
    /\ allLeaves' = serverLeaves
    /\ stale' = stale \ {"all"}
    /\ UNCHANGED <<today, tzShift, config, serverLeaves, myLeaves, slotRangeInfo,
                   slotInfoForDate, selectedDate, selectedShift, mutation, toast,
                   view, calendarVars, dateVars, shiftVars, sessionVars,
                   filterStatus, searchQuery,
                   selectedLeaves, rejectLeaveId, adminRequest>>

InitAdmin ==
    /\ today = 0
    /\ tzShift = 0
    /\ config = [ weekRange |-> "1_WEEK", disabledDays |-> {} ]
    /\ serverLeaves \in PendingLeaveLists
    /\ myLeaves = serverLeaves
    /\ slotRangeInfo = << >>
    /\ slotInfoForDate = NotLoaded
    /\ stale = {}
    /\ selectedDate = NoDate
    /\ selectedShift = NoShift
    /\ mutation = Idle
    /\ toast = "none"
    /\ view = renderCalendar(today, tzShift, config, slotRangeInfo, myLeaves)
    /\ CalendarMounted
    /\ LoggedIn(AdminUser, "")
    /\ InitPages

NextAdmin ==
    \/ \E id \in 1..MaxLeaves : ApproveClicked(id)
    \/ \E id \in 1..MaxLeaves : handleRejectClick(id)
    \/ handleConfirmReject
    \/ handleCancelReject
    \/ \E id \in 1..MaxLeaves : handleToggleSelect(id)
    \/ handleToggleSelectAll
    \/ \E status \in {"APPROVED", "REJECTED"} : handleBulkAction(status)
    \/ \E status \in FilterStatuses : setFilterStatus(status)
    \/ \E query \in SearchQueries : setSearchQuery(query)
    \/ AdminRequestSucceeded
    \/ AdminRequestFailed
    \/ AllLeavesRefetched

SpecAdmin == InitAdmin /\ [][NextAdmin]_vars

---------------------------------------------------------------------------
(* ShiftManagement: the bulk modal of a ShiftRow.  weekShifts maps each     *)
(* assigned user to a shift; the row of shift `shift` lists its users.      *)

\* users in the order the rows list them (by name)
ScheduleUsers == << "u1", "u2", "u3" >>
\* allShifts
ScheduleShifts == {"s1", "s2"}

\* user.id read from a user id string instead of a user object: undefined
Undefined == "undefined"

Range(seq) == { seq[i] : i \in DOMAIN seq }

\* the elements of seq for which the same position of keep is TRUE
RECURSIVE FilterSeq(_, _)
FilterSeq(seq, keep) ==
    IF seq = << >> THEN << >>
    ELSE LET rest == FilterSeq(Tail(seq), Tail(keep))
         IN  IF Head(keep) THEN << Head(seq) >> \o rest ELSE rest

\* assignedUsers of the row of a shift: the ids of its users, in row order
assignedUsers(shift) ==
    FilterSeq(ScheduleUsers,
              [ i \in DOMAIN ScheduleUsers |->
                  /\ ScheduleUsers[i] \in DOMAIN weekShifts
                  /\ weekShifts[ScheduleUsers[i]] = shift ])

\* getTargetUsers: the user ids (strings) of the week's entries of the
\* target shift
getTargetUsers ==
    IF bulkShiftId = NoShift THEN << >> ELSE assignedUsers(bulkShiftId)

\* isLoading of the row: an assignment mutation is pending
isLoading == shiftRequests # << >>

\* handleChangeUserShift(userId, newShiftId, skipConfirm = true): the
\* requests updateShiftMutation.mutate sends, none when the user already has
\* the shift
handleChangeUserShift(userId, newShiftId) ==
    IF newShiftId = NoShift THEN << >>
    ELSE IF userId \in DOMAIN weekShifts /\ weekShifts[userId] = newShiftId
    THEN << >>
    ELSE << [ userId |-> userId, shiftId |-> newShiftId ] >>

\* the requests of onChangeShift over a list of user ids, in order
RECURSIVE ChangeAll(_, _)
ChangeAll(userIds, newShiftId) ==
    IF userIds = << >> THEN << >>
    ELSE handleChangeUserShift(Head(userIds), newShiftId)
            \o ChangeAll(Tail(userIds), newShiftId)

\* the frame of a step of ShiftManagement
ScheduleFrame ==
    UNCHANGED <<today, tzShift, config, serverLeaves, myLeaves, slotRangeInfo,
                slotInfoForDate, stale, selectedDate, selectedShift, mutation,
                toast, view, calendarVars, dateVars, adminVars,
                sessionVars>>

\* the bulk button of the row of a shift opens the row's modal
handleBulkShiftChangeClick(shift) ==
    /\ showBulkModal = NoShift
    /\ assignedUsers(shift) # << >>
    /\ bulkShiftId' = NoShift
    /\ bulkChangeMode' = "add"
    /\ selectedActionUsers' = {}
    /\ showBulkModal' = shift
    /\ UNCHANGED <<weekShifts, shiftRequests>>
    /\ ScheduleFrame

\* the two mode buttons of the modal
setBulkChangeMode(mode) ==
    /\ showBulkModal # NoShift
    /\ mode # bulkChangeMode
    /\ bulkChangeMode' = mode
    /\ UNCHANGED <<weekShifts, showBulkModal, bulkShiftId, selectedActionUsers,
                   shiftRequests>>
    /\ ScheduleFrame

\* the target Select of the modal, which offers every other shift
setBulkShiftId(id) ==
    /\ showBulkModal # NoShift
    /\ ~isLoading
    /\ id # showBulkModal
    /\ id # bulkShiftId
    /\ bulkShiftId' = id
    /\ UNCHANGED <<weekShifts, showBulkModal, bulkChangeMode, selectedActionUsers,
                   shiftRequests>>
    /\ ScheduleFrame

\* the checkbox of a user of the row
toggleActionUser(userId) ==
    /\ showBulkModal # NoShift
    /\ userId \in Range(assignedUsers(showBulkModal))
    /\ selectedActionUsers' = IF userId \in selectedActionUsers
                              THEN selectedActionUsers \ {userId}
                              ELSE selectedActionUsers \cup {userId}
    /\ UNCHANGED <<weekShifts, showBulkModal, bulkChangeMode, bulkShiftId,
                   shiftRequests>>
    /\ ScheduleFrame

\* the users a bulk change of the given type processes
usersToProcess(type) ==
    LET assigned == assignedUsers(showBulkModal)
    IN  IF type \in {"move_selected", "swap_selected"}
        THEN FilterSeq(assigned,
                       [ i \in DOMAIN assigned |-> assigned[i] \in selectedActionUsers ])
        ELSE assigned

\* handleConfirmBulkChange(type), from the button of that type, which the
\* modal shows in the matching mode and enables once a target is chosen.
\* The second pass of a swap maps over the user id strings getTargetUsers
\* returns and reads .id of each, which is undefined
handleConfirmBulkChange(type) ==
    LET swap == type \in {"swap_selected", "swap_all"}
        targetShiftUsers == getTargetUsers
    IN  /\ showBulkModal # NoShift
        /\ bulkChangeMode = (IF swap THEN "swap" ELSE "add")
        /\ ~isLoading
        /\ bulkShiftId # NoShift
        /\ bulkShiftId \in ScheduleShifts
        /\ usersToProcess(type) # << >>
        /\ shiftRequests' =
              ChangeAll(usersToProcess(type), bulkShiftId)
              \o (IF swap
                  THEN ChangeAll([ i \in DOMAIN targetShiftUsers |-> Undefined ],
                                 showBulkModal)
                  ELSE << >>)
        /\ showBulkModal' = NoShift
        /\ bulkShiftId' = NoShift
        /\ selectedActionUsers' = {}
        /\ UNCHANGED <<weekShifts, bulkChangeMode>>
        /\ ScheduleFrame

\* the Cancel button of the modal
BulkModalClosed ==
    /\ showBulkModal # NoShift
    /\ showBulkModal' = NoShift
    /\ UNCHANGED <<weekShifts, bulkChangeMode, bulkShiftId, selectedActionUsers,
                   shiftRequests>>
    /\ ScheduleFrame

\* the server answers the requests sent: an assignment that names a user is
\* stored, one without a user id is refused; the week's assignments are
\* fetched again
ShiftRequestsAnswered ==
    /\ shiftRequests # << >>
    /\ weekShifts' =
          [ u \in (DOMAIN weekShifts \cup
                      { r.userId : r \in Range(shiftRequests) }) \ {Undefined} |->
              IF \E r \in Range(shiftRequests) : r.userId = u
              THEN (CHOOSE r \in Range(shiftRequests) : r.userId = u).shiftId
              ELSE weekShifts[u] ]
    /\ shiftRequests' = << >>
    /\ UNCHANGED <<showBulkModal, bulkChangeMode, bulkShiftId, selectedActionUsers>>
    /\ ScheduleFrame

InitSchedule ==
    /\ today = 0
    /\ tzShift = 0
    /\ config = [ weekRange |-> "1_WEEK", disabledDays |-> {} ]
    /\ serverLeaves = << >>
    /\ myLeaves = << >>
    /\ slotRangeInfo = << >>
    /\ slotInfoForDate = NotLoaded
    /\ stale = {}
    /\ selectedDate = NoDate
    /\ selectedShift = NoShift
    /\ mutation = Idle
    /\ toast = "none"
    /\ view = renderCalendar(today, tzShift, config, slotRangeInfo, myLeaves)
    /\ CalendarMounted
    /\ LoggedIn(AdminUser, "")
    /\ InitDateVars
    /\ allLeaves = serverLeaves
    /\ LeaveManagementMounted
    /\ weekShifts \in UNION { [ S -> ScheduleShifts ] : S \in SUBSET Range(ScheduleUsers) }
    /\ ShiftRowMounted

NextSchedule ==
    \/ \E shift \in ScheduleShifts : handleBulkShiftChangeClick(shift)
    \/ \E mode \in {"add", "swap"} : setBulkChangeMode(mode)
    \/ \E id \in ScheduleShifts \cup {NoShift} : setBulkShiftId(id)
    \/ \E userId \in Range(ScheduleUsers) : toggleActionUser(userId)
    \/ \E type \in {"move_selected", "move_all", "swap_selected", "swap_all"} :
          handleConfirmBulkChange(type)
    \/ BulkModalClosed
    \/ ShiftRequestsAnswered

SpecSchedule == InitSchedule /\ [][NextSchedule]_vars

---------------------------------------------------------------------------
(* The leave history page: the list holds leaves of every status; the user  *)
(* cancels leaves, the administrator decides them, the list is refetched.   *)

InitHistory ==
    /\ today = 0
    /\ tzShift = 0
    /\ config = [ weekRange |-> "1_WEEK", disabledDays |-> {} ]
    /\ serverLeaves \in LeaveLists
    /\ myLeaves = serverLeaves
    /\ slotRangeInfo = << >>
    /\ selectedDate = NoDate
    /\ selectedShift = NoShift
    /\ slotInfoForDate = NotLoaded
    /\ stale = {}
    /\ mutation = Idle
    /\ toast = "none"
    /\ view = renderCalendar(today, tzShift, config, slotRangeInfo, myLeaves)
    /\ CalendarMounted
    /\ LoggedIn(StaffUser, "#/history")
    /\ InitPages

NextHistory ==
    \/ CancelLeaveSucceeded
    \/ \E j \in 1..MaxLeaves, status \in {"APPROVED", "REJECTED"} :
          UpdateLeaveStatusSucceeded(j, status)
    \/ LeavesRefetched

SpecHistory == InitHistory /\ [][NextHistory]_vars

---------------------------------------------------------------------------
(* The shift Select of an office with two shifts, under every single-date   *)
(* detail: the form is open on Thursday 2024-06-13 and the detail is either *)
(* not loaded or holds an entry for any subset of the two shifts.           *)

FormShifts == {"s1", "s2"}
FormDetails == UNION { [S -> AvailValues] : S \in SUBSET FormShifts }

InitShift ==
    /\ today = 0
    /\ tzShift = 0
    /\ config \in { c \in Configs : c.weekRange = "1_WEEK" }
    /\ serverLeaves = <<>>
    /\ myLeaves = <<>>
    /\ slotRangeInfo \in RangeSnapshots
    /\ selectedDate = 4
    /\ selectedShift = NoShift
    /\ slotInfoForDate \in
          {NotLoaded} \cup { [ loaded |-> TRUE, info |-> i ] : i \in FormDetails }
    /\ stale = {}
    /\ mutation = Idle
    /\ toast = "none"
    /\ view = renderCalendar(today, tzShift, config, slotRangeInfo, myLeaves)
    /\ CalendarMounted
    /\ LoggedIn(StaffUser, "")
    /\ InitPages

NextShift ==
    \/ \E s \in FormShifts \cup {NoShift} : setSelectedShift(s)
    \/ \E d \in Dates : handleDateSelect(d)
    \/ SubmitForm

SpecShift == InitShift /\ [][NextShift]_vars

---------------------------------------------------------------------------
(* The booked weeks under every leave list: the leave list arrives from the *)
(* server and the calendar renders it.  The leave dates lie around a month  *)
(* boundary and a year boundary: Wed 2024-07-31, Thu 2024-08-01,            *)
(* Mon 2024-08-05, Mon 2024-12-30, Wed 2025-01-01, Sun 2025-01-05.          *)

WeekDates == {52, 53, 57, 204, 206, 210}
WeekLeaveLists ==
    UNION { [1..n -> [ date : WeekDates, status : LeaveStatus ]] : n \in 0..MaxLeaves }

InitWeek ==
    /\ today = 0
    /\ tzShift = 0
    /\ config = [ weekRange |-> "1_MONTH", disabledDays |-> {} ]
    /\ serverLeaves \in WeekLeaveLists
    /\ myLeaves = <<>>
    /\ slotRangeInfo = <<>>
    /\ slotInfoForDate = NotLoaded
    /\ stale = {"leaves"}
    /\ selectedDate = NoDate
    /\ selectedShift = NoShift
    /\ mutation = Idle
    /\ toast = "none"
    /\ view = renderCalendar(today, tzShift, config, slotRangeInfo, myLeaves)
    /\ CalendarMounted
    /\ LoggedIn(StaffUser, "")
    /\ InitPages

NextWeek == LeavesRefetched

SpecWeek == InitWeek /\ [][NextWeek]_vars

---------------------------------------------------------------------------
(* The session: the page is loaded and reloaded, the visitor fills the      *)
(* login form, the server answers, the user logs out.  One browser tab.     *)

\* what the visitor may type into the login form
Mobiles == {"", "919000000001"}
Passwords == {"", "secret"}

\* window.location.hash
Routes == {"", "#/history"}

\* the frame of a step of App or Auth
SessionFrame ==
    UNCHANGED <<today, tzShift, config, serverLeaves, myLeaves, slotRangeInfo,
                slotInfoForDate, stale, selectedDate, selectedShift, mutation,
                view, calendarVars, dateVars, adminVars, shiftVars>>

\* the page is (re)loaded at `hash`: App is constructed, its in-memory state
\* is fresh, the storage is what the browser kept
PageLoaded(hash) ==
    /\ appMounted' = FALSE
    /\ theme' = IF storedTheme # NoTheme THEN storedTheme ELSE "light"
    /\ currentUser' = NoUser
    /\ route' = hash
    /\ loginMobile' = ""
    /\ loginPassword' = ""
    /\ rememberMe' = FALSE
    /\ loginError' = NoError
    /\ loginRequest' = NoLogin
    /\ toast' = "none"
    /\ UNCHANGED <<storedUser, storedTheme>>
    /\ SessionFrame

\* App's mount effects: the saved user is restored, the theme is saved
MountEffects ==
    /\ ~appMounted
    /\ appMounted' = TRUE
    /\ currentUser' = IF storedUser # NoItem THEN JSONParse(storedUser) ELSE currentUser
    /\ storedTheme' = theme
    /\ UNCHANGED <<storedUser, theme, route, loginMobile, loginPassword,
                   rememberMe, loginError, loginRequest, toast>>
    /\ SessionFrame

\* the hashchange listener
handleHashChange(hash) ==
    /\ appMounted
    /\ route' = hash
    /\ UNCHANGED <<appMounted, currentUser, storedUser, theme, storedTheme,
                   loginMobile, loginPassword, rememberMe, loginError,
                   loginRequest, toast>>
    /\ SessionFrame

\* the header's theme button, and the theme effect that follows
toggleTheme ==
    /\ appMounted
    /\ currentUser # NoUser
    /\ theme' = IF theme = "light" THEN "dark" ELSE "light"
    /\ storedTheme' = theme'
    /\ UNCHANGED <<appMounted, currentUser, storedUser, route, loginMobile,
                   loginPassword, rememberMe, loginError, loginRequest, toast>>
    /\ SessionFrame

\* Auth is rendered
AuthShown == appMounted /\ currentUser = NoUser

setLoginMobile(value) ==
    /\ AuthShown
    /\ ~loginRequest.pending
    /\ loginMobile' = value
    /\ UNCHANGED <<appMounted, currentUser, storedUser, theme, storedTheme, route,
                   loginPassword, rememberMe, loginError, loginRequest, toast>>
    /\ SessionFrame

setLoginPassword(value) ==
    /\ AuthShown
    /\ ~loginRequest.pending
    /\ loginPassword' = value
    /\ UNCHANGED <<appMounted, currentUser, storedUser, theme, storedTheme, route,
                   loginMobile, rememberMe, loginError, loginRequest, toast>>
    /\ SessionFrame

\* the 'Remember me' checkbox; it stays enabled while a login is in flight
setRememberMe(checked) ==
    /\ AuthShown
    /\ rememberMe' = checked
    /\ UNCHANGED <<appMounted, currentUser, storedUser, theme, storedTheme, route,
                   loginMobile, loginPassword, loginError, loginRequest, toast>>
    /\ SessionFrame

\* Auth.handleLogin: the form is submitted; the success callback holds the
\* rememberMe of this render
LoginSubmitted ==
    /\ AuthShown
    /\ ~loginRequest.pending
    /\ IF loginMobile = "" \/ loginPassword = ""
         THEN /\ loginError' = "Please enter mobile and password."
              /\ UNCHANGED <<loginRequest, toast>>
         ELSE /\ loginError' = NoError
              /\ loginRequest' = [ pending |-> TRUE, rememberMe |-> rememberMe ]
              /\ toast' = "loading: logging in"
    /\ UNCHANGED <<appMounted, currentUser, storedUser, theme, storedTheme, route,
                   loginMobile, loginPassword, rememberMe>>
    /\ SessionFrame

\* App.handleLogin with every write to the storage
handleLogin_Mut(user, remember) ==
    /\ currentUser' = user
    /\ storedUser' = JSONStringify(user)

\* App.handleLogin
handleLogin(user, remember) ==
    /\ currentUser' = user
    /\ storedUser' = IF remember THEN JSONStringify(user) ELSE storedUser

\* the server accepts the login: onLogin(user, rememberMe); Auth unmounts
LoginSucceeded(user) ==
    /\ AuthShown
    /\ loginRequest.pending
    /\ handleLogin(user, loginRequest.rememberMe)
    /\ toast' = "success: welcome back"
    /\ loginMobile' = ""
    /\ loginPassword' = ""
    /\ rememberMe' = FALSE
    /\ loginError' = NoError
    /\ loginRequest' = NoLogin
    /\ UNCHANGED <<appMounted, theme, storedTheme, route>>
    /\ SessionFrame

\* the server refuses the login
LoginFailed ==
    /\ AuthShown
    /\ loginRequest.pending
    /\ loginError' = "Invalid mobile number or password."
    /\ toast' = "error: login failed"
    /\ loginRequest' = NoLogin
    /\ UNCHANGED <<appMounted, currentUser, storedUser, theme, storedTheme, route,
                   loginMobile, loginPassword, rememberMe>>
    /\ SessionFrame

\* App.handleLogout; Auth mounts afresh
handleLogout ==
    /\ appMounted
    /\ currentUser # NoUser
    /\ currentUser' = NoUser
    /\ storedUser' = NoItem
    /\ route' = ""
    /\ toast' = "logged out"
    /\ UNCHANGED <<appMounted, theme, storedTheme, loginMobile, loginPassword,
                   rememberMe, loginError, loginRequest>>
    /\ SessionFrame

\* the first load of the page in a browser that holds no item yet
InitSession ==
    /\ today = 0
    /\ tzShift = 0
    /\ config = [ weekRange |-> "1_WEEK", disabledDays |-> {} ]
    /\ serverLeaves = << >>
    /\ myLeaves = << >>
    /\ slotRangeInfo = << >>
    /\ slotInfoForDate = NotLoaded
    /\ stale = {}
    /\ selectedDate = NoDate
    /\ selectedShift = NoShift
    /\ mutation = Idle
    /\ toast = "none"
    /\ view = renderCalendar(today, tzShift, config, slotRangeInfo, myLeaves)
    /\ CalendarMounted
    /\ InitPages
    /\ appMounted = FALSE
    /\ currentUser = NoUser
    /\ storedUser = NoItem
    /\ theme = "light"
    /\ storedTheme = NoTheme
    /\ route \in Routes
    /\ AuthMounted

NextSession ==
    \/ \E hash \in Routes : PageLoaded(hash)
    \/ MountEffects
    \/ \E hash \in Routes : handleHashChange(hash)
    \/ toggleTheme
    \/ \E value \in Mobiles : setLoginMobile(value)
    \/ \E value \in Passwords : setLoginPassword(value)
    \/ \E checked \in BOOLEAN : setRememberMe(checked)
    \/ LoginSubmitted
    \/ \E user \in Users : LoginSucceeded(user)
    \/ LoginFailed
    \/ handleLogout

SpecSession == InitSession /\ [][NextSession]_vars

---------------------------------------------------------------------------
(* Properties of the dashboard *)

\* the Monday on or before day d
MondayOf(d) == CHOOSE m \in (d - 6)..d : m % 7 = 1

ActiveLeaves(leaves) ==
    { i \in DOMAIN leaves : leaves[i].status \in {"PENDING", "APPROVED"} }

WeekHasActiveLeave(leaves, d) ==
    \E i \in ActiveLeaves(leaves) : MondayOf(leaves[i].date) = MondayOf(d)

\* C1: the user's leaves hold at most one active (PENDING or APPROVED) leave per
\* Monday-start week, and no create request is in flight for a week that
\* already holds an active leave.
C1_OneActiveLeavePerWeek ==
    /\ \A i, j \in ActiveLeaves(serverLeaves) :
          MondayOf(serverLeaves[i].date) = MondayOf(serverLeaves[j].date) => i = j
    /\ mutation.pending => ~WeekHasActiveLeave(serverLeaves, mutation.date)

\* C2: a create request is issued only for a date that the calendar, as
\* rendered when the request is issued, classifies as selectable.
C2_RequestOnlyForSelectable ==
    [][ (~mutation.pending /\ mutation'.pending)
          => ~view.cells[mutation'.date].isDisabled ]_vars

ErrorToasts == { "error: select a date and a shift", "error: no available slots" }

NoFreeSlotForShift ==
    \/ ~slotInfoForDate.loaded
    \/ ~(selectedShift \in DOMAIN slotInfoForDate.info)
    \/ slotInfoForDate.info[selectedShift] <= 0

\* C3: when no date is selected, no shift is chosen, the single-date detail has
\* no entry for the chosen shift, or that entry has availableSlots <= 0, the
\* guard issues no request, reports an error and leaves the selected date and
\* shift unchanged.
C3_GuardRejects ==
    [][ (selectedDate = NoDate \/ selectedShift = NoShift \/ NoFreeSlotForShift)
          => /\ mutation' = mutation
             /\ ~mutation'.pending
             /\ toast' \in ErrorToasts
             /\ selectedDate' = selectedDate
             /\ selectedShift' = selectedShift ]_vars

C3_Witness ==
    /\ toast = "error: no available slots"
    /\ selectedDate # NoDate
    /\ selectedShift # NoShift
    /\ slotInfoForDate.loaded
    /\ selectedShift \in DOMAIN slotInfoForDate.info
    /\ slotInfoForDate.info[selectedShift] = 0
    /\ ~mutation.pending

---------------------------------------------------------------------------
(* Properties of the booking window *)

Weekday(d) == d % 7
Midnight(d) == d * 24

\* C4 as stated: minDate <= maxDate for every today and every weekRange.
C4_WindowOrdered == view.minDate <= view.maxDate

\* C4 amended: minDate <= maxDate holds for 2_WEEKS and 1_MONTH on every
\* weekday; for 1_WEEK it holds on Sunday and Monday, on Tuesday exactly when
\* the host's UTC offset does not drop during the lead days, and on Wednesday
\* to Saturday it fails: the window is empty.
C4_WindowOrderedWhere ==
    /\ config.weekRange \in {"2_WEEKS", "1_MONTH"} => view.minDate <= view.maxDate
    /\ config.weekRange = "1_WEEK" =>
         ( view.minDate <= view.maxDate <=>
             \/ Weekday(today) \in {0, 1}
             \/ Weekday(today) = 2 /\ tzShift <= 0 )

C4_Witness ==
    /\ config.weekRange = "1_WEEK"
    /\ Weekday(today) = 3
    /\ view.minDate > view.maxDate

\* C5: minDate is exactly today + 4 calendar days (midnight UTC of that day),
\* whatever the configured range.
C5_MinDateIsTodayPlus4 == view.minDate = Midnight(today + 4)

\* C6: maxDate is today + (6 - dow) days for 1_WEEK, today + (6 - dow) + 7 days
\* for 2_WEEKS and today + 30 days for 1_MONTH; for the two week ranges that is
\* the first, respectively the second, Saturday on or after today.
C6_MaxDate ==
    LET dow == Weekday(today)
    IN  /\ config.weekRange = "1_WEEK" =>
              /\ view.maxDate = Midnight(today + (6 - dow))
              /\ \E k \in 0..6 : view.maxDate = Midnight(today + k)
                                 /\ Weekday(today + k) = 6
        /\ config.weekRange = "2_WEEKS" =>
              /\ view.maxDate = Midnight(today + (6 - dow) + 7)
              /\ \E k \in 7..13 : view.maxDate = Midnight(today + k)
                                  /\ Weekday(today + k) = 6
        /\ config.weekRange = "1_MONTH" => view.maxDate = Midnight(today + 30)

C6_Witness ==
    /\ config.weekRange = "2_WEEKS"
    /\ Weekday(today) = 3
    /\ view.maxDate = Midnight(today + 10)

\* C7 as stated: on a Monday with 1_WEEK, minDate is the Friday (today + 4) and
\* maxDate the Sunday (today + 6) of that week.
C7_MondayFridayToSunday ==
    (Weekday(today) = 1 /\ config.weekRange = "1_WEEK") =>
        /\ view.minDate = Midnight(today + 4)
        /\ view.maxDate = Midnight(today + 6)

\* C7 amended: on a Monday with 1_WEEK, maxDate is the Saturday of that week
\* (today + 5); minDate is Friday 00:00 UTC (today + 4) displaced by the change
\* of the host's UTC offset over the lead days, so the first date not blocked as
\* past is that Friday, or the Saturday when the offset drops in between.
C7_MondayFridayToSaturday ==
    (Weekday(today) = 1 /\ config.weekRange = "1_WEEK") =>
        /\ view.maxDate = Midnight(today + 5)
        /\ Weekday(today + 5) = 6
        /\ view.minDate = Midnight(today + 4) + tzShift
        /\ view.cells[today + 3].isPast
        /\ view.cells[today + 4].isPast <=> tzShift > 0
        /\ ~view.cells[today + 5].isPast
        /\ ~view.cells[today + 5].isFutureDisabled
        /\ view.cells[today + 6].isFutureDisabled

C7_Witness ==
    /\ today = 1
    /\ config.weekRange = "1_WEEK"
    /\ tzShift = 0
    /\ view.minDate = Midnight(5)
    /\ view.maxDate = Midnight(6)

---------------------------------------------------------------------------
(* Properties of the day classification *)

HasLeaveNotRejected(leaves, d) ==
    \E i \in DOMAIN leaves : leaves[i].date = d /\ leaves[i].status # "REJECTED"

HasActiveLeaveOn(leaves, d) ==
    \E i \in ActiveLeaves(leaves) : leaves[i].date = d

\* C8: a date is selectable iff none of the six blocking conditions holds:
\* before minDate, after maxDate, weekday disabled by config, an own leave on
\* the date that is not REJECTED, the week already booked by a leave on another
\* date, a snapshot entry for the date without a free slot.
C8_SelectableIffNoReason ==
    \A d \in Dates :
        ~view.cells[d].isDisabled <=>
            ~ \/ Midnight(d) < view.minDate
              \/ Midnight(d) > view.maxDate
              \/ Weekday(d) \in config.disabledDays
              \/ HasLeaveNotRejected(myLeaves, d)
              \/ WeekHasActiveLeave(myLeaves, d) /\ ~HasActiveLeaveOn(myLeaves, d)
              \/ d \in DOMAIN slotRangeInfo /\ slotRangeInfo[d] <= 0

C8_Witness ==
    /\ \E d \in Dates : ~view.cells[d].isDisabled
    /\ \E d \in Dates :
          /\ view.cells[d].isDisabled
          /\ view.cells[d].noSlots
          /\ ~view.cells[d].isPast
          /\ ~view.cells[d].isFutureDisabled
          /\ ~view.cells[d].isDayDisabledByConfig
          /\ ~view.cells[d].isWeekBooked
          /\ ~view.cells[d].ownLeave

\* C9: for every date and leave list, the own-leave block applies exactly when
\* the user has a leave on that date whose status is not REJECTED.
C9_OwnLeaveBlock ==
    \A d \in Dates : view.cells[d].ownLeave <=> HasLeaveNotRejected(myLeaves, d)

\* C10: if the user's only active leave of a Monday-start week is on date D, the
\* week-already-booked condition is false for D and true for every other date
\* of that Monday-to-Sunday week.
C10_SelfVisit ==
    \A D \in Dates :
        ( /\ HasActiveLeaveOn(myLeaves, D)
          /\ Cardinality({ i \in ActiveLeaves(myLeaves) :
                             MondayOf(myLeaves[i].date) = MondayOf(D) }) = 1 )
        => /\ ~view.cells[D].isWeekBooked
           /\ \A D2 \in Dates :
                (D2 # D /\ MondayOf(D2) = MondayOf(D)) => view.cells[D2].isWeekBooked

(***************************************************************************)
(* Properties of the booked weeks                                          *)
(***************************************************************************)

\* index of the Monday-to-Sunday week day d lies in (day 1 is a Monday)
WeekIndex(d) == (d + 6) \div 7

\* C11: a week key is in bookedWeeks exactly when the held leave list has at
\* least one PENDING or APPROVED leave in that Monday-start week: the keys
\* are the Mondays of the active leaves and nothing else, so two active
\* leaves of one week give one key and a week with only REJECTED leaves
\* gives none.
C11_BookedWeeks ==
    /\ view.bookedWeeks = { MondayOf(myLeaves[i].date) : i \in ActiveLeaves(myLeaves) }
    /\ \A i \in DOMAIN myLeaves :
          (\A j \in DOMAIN myLeaves :
              WeekIndex(myLeaves[j].date) = WeekIndex(myLeaves[i].date)
                  => myLeaves[j].status = "REJECTED")
          => MondayOf(myLeaves[i].date) \notin view.bookedWeeks

\* two active leaves of one week (Wed 2024-07-31, Thu 2024-08-01): one key
C11_Witness ==
    /\ Len(myLeaves) >= 2
    /\ myLeaves[1].date = 52 /\ myLeaves[1].status = "PENDING"
    /\ myLeaves[2].date = 53 /\ myLeaves[2].status = "APPROVED"
    /\ view.bookedWeeks = {50}

\* C12: the week key of a date is the Monday on or before it, 0 to 6 days
\* earlier: a Monday maps to itself, a Sunday to the Monday six days before;
\* two dates get the same key exactly when they lie in the same
\* Monday-to-Sunday week, across month and year boundaries too.
C12_WeekKey ==
    /\ \A i \in ActiveLeaves(myLeaves) :
          LET d == myLeaves[i].date
          IN  \E k \in view.bookedWeeks :
                /\ k % 7 = 1
                /\ d - k \in 0..6
                /\ (d % 7 = 1 => k = d)
                /\ (d % 7 = 0 => k = d - 6)
    /\ \A k \in view.bookedWeeks : k % 7 = 1
    /\ Cardinality(view.bookedWeeks) =
          Cardinality({ WeekIndex(myLeaves[i].date) : i \in ActiveLeaves(myLeaves) })

\* Thu 2024-08-01 keyed by Mon 2024-07-29 and Wed 2025-01-01 keyed by
\* Mon 2024-12-30: each key lies in the month, or the year, before its date
C12_Witness ==
    /\ Len(myLeaves) = 2
    /\ myLeaves[1].date = 53 /\ IsActive(myLeaves[1].status)
    /\ myLeaves[2].date = 206 /\ IsActive(myLeaves[2].status)
    /\ view.bookedWeeks = {50, 204}
    /\ MonthOfDay[50] # MonthOfDay[53]
    /\ MonthYear(MonthOfDay[204]) = 2024 /\ MonthYear(MonthOfDay[206]) = 2025

(***************************************************************************)
(* Properties of the selectable dates                                      *)
(***************************************************************************)

InWindow(d) == Midnight(d) >= view.minDate /\ Midnight(d) <= view.maxDate

\* C13: no date outside the inclusive window [minDate, maxDate], minDate being
\* today + 4 days, is selectable, whatever the snapshot, the leave list and
\* the disabled weekdays; the boundary dates minDate and maxDate themselves
\* are not blocked by the window rule.
C13_WindowRule ==
    \A d \in Dates :
        /\ (d < today + 4 \/ Midnight(d) > view.maxDate) => view.cells[d].isDisabled
        /\ d = today + 4 => ~view.cells[d].isPast
        /\ Midnight(d) = view.maxDate => ~view.cells[d].isFutureDisabled

\* C14: a date whose weekday is in config.disabledDays is not selectable,
\* whatever the snapshot and the leave list.
C14_DisabledWeekday ==
    \A d \in Dates : Weekday(d) \in config.disabledDays => view.cells[d].isDisabled

\* Saturday 2024-06-15: inside the window, a free slot in the snapshot, no
\* leaves, and blocked by its weekday alone
C14_Witness ==
    /\ 6 \in config.disabledDays
    /\ InWindow(6)
    /\ 6 \in DOMAIN slotRangeInfo /\ slotRangeInfo[6] > 0
    /\ myLeaves = <<>>
    /\ view.cells[6].isDisabled

\* C15: a date whose range-snapshot entry has availableSlots <= 0 is not
\* selectable, even inside the window, on an enabled weekday, without leaves.
C15_NoFreeSlot ==
    \A d \in Dates :
        (d \in DOMAIN slotRangeInfo /\ slotRangeInfo[d] <= 0) => view.cells[d].isDisabled

C15_Witness ==
    /\ InWindow(6)
    /\ ~(6 \in config.disabledDays)
    /\ myLeaves = <<>>
    /\ 6 \in DOMAIN slotRangeInfo /\ slotRangeInfo[6] = 0
    /\ view.cells[6].isDisabled

\* C16: a date without entry in the range snapshot is tentatively open: when
\* nothing else blocks it (window, weekday, own leave, booked week) it is
\* selectable, and its label says that the slot information is loading.
C16_NoEntryIsOpen ==
    \A d \in Dates :
        ( /\ ~(d \in DOMAIN slotRangeInfo)
          /\ InWindow(d)
          /\ ~(Weekday(d) \in config.disabledDays)
          /\ ~HasLeaveNotRejected(myLeaves, d)
          /\ ~WeekHasActiveLeave(myLeaves, d) )
        => /\ ~view.cells[d].isDisabled
           /\ AriaLabel(d).availability = "Slot information loading"

\* Friday 2024-06-14 has no entry while Saturday 2024-06-15 has one
C16_Witness ==
    /\ today = 0
    /\ 6 \in DOMAIN slotRangeInfo
    /\ ~(5 \in DOMAIN slotRangeInfo)
    /\ InWindow(5)
    /\ myLeaves = <<>>
    /\ ~view.cells[5].isDisabled
    /\ AriaLabel(5).availability = "Slot information loading"

(***************************************************************************)
(* Properties of the shift Select                                          *)
(***************************************************************************)

\* the single-date detail is loaded and holds an entry with a free slot for s
HasFreeSlot(s) ==
    /\ slotInfoForDate.loaded
    /\ s \in DOMAIN slotInfoForDate.info
    /\ slotInfoForDate.info[s] > 0

\* C17: the option of a shift is enabled only if the single-date detail of the
\* selected date has an entry for that shift with availableSlots > 0, and a
\* shift is chosen in the Select only then; a shift without entry, or any
\* shift while the detail is not loaded, is not offered.
C17_OfferedOnlyWithFreeSlot ==
    [][ /\ \A s \in FormShifts : ~OptionDisabled(s) => HasFreeSlot(s)
        /\ (selectedShift' # selectedShift /\ selectedShift' # NoShift)
              => HasFreeSlot(selectedShift') ]_vars

\* s1 was chosen while s2, without entry in the detail, was not offered
C17_Witness ==
    /\ selectedShift = "s1"
    /\ HasFreeSlot("s1")
    /\ ~("s2" \in DOMAIN slotInfoForDate.info)
    /\ OptionDisabled("s2")
    /\ ~SelectDisabled

(***************************************************************************)
(* Properties of the reported reasons and of the requested range           *)
(***************************************************************************)

\* what a label says besides the date
LabelText(l) == << l.selected, l.leaveStatus, l.availability, l.availableSlots >>

\* the label day d would carry if it were fully booked
FullyBookedLabel(d) ==
    getDayAriaLabel(DateUTC(d), selectedDate = d, TRUE,
                    [ has |-> TRUE, availableSlots |-> 0 ],
                    view.cells[d].leaveStatus)

\* C18: the blocking reasons are reported specifically: a date before minDate
\* on a disabled weekday reports both reasons, so its label differs from that
\* of a date that is only before minDate; and the label of a day blocked by
\* its weekday differs from the label of a fully booked day.
C18_ReasonsReported ==
    /\ \A d1, d2 \in Dates :
          ( /\ view.cells[d1].isPast /\ view.cells[d1].isDayDisabledByConfig
            /\ view.cells[d2].isPast /\ ~view.cells[d2].isDayDisabledByConfig
            /\ view.cells[d1].leaveStatus = view.cells[d2].leaveStatus )
          => LabelText(AriaLabel(d1)) # LabelText(AriaLabel(d2))
    /\ \A d \in Dates :
          (view.cells[d].isDayDisabledByConfig /\ ~view.cells[d].noSlots)
          => AriaLabel(d) # FullyBookedLabel(d)

\* C19: the slot-occupancy range requested from the server is the booking
\* window: startDate is the calendar's minDate and endDate its maxDate.
C19_RangeIsWindow ==
    /\ DateUTC(dateRange.startDate) = view.minDate
    /\ DateUTC(dateRange.endDate) = view.maxDate

(***************************************************************************)
(* Properties of the query cache                                           *)
(***************************************************************************)

\* a mutation has succeeded: its onSuccess has run
MutationSucceeded ==
    \/ CreateLeaveSucceeded
    \/ CancelLeaveSucceeded
    \/ \E j \in 1..MaxLeaves, status \in {"APPROVED", "REJECTED"} :
          UpdateLeaveStatusSucceeded(j, status)
    \/ \E leaveIds \in SUBSET (1..MaxLeaves), status \in {"APPROVED", "REJECTED"} :
          UpdateMultipleLeaveStatusesSucceeded(leaveIds, status)
    \/ UpdateConfigSucceeded

\* every cached slot snapshot, range and single-date, is marked stale
SlotSnapshotsInvalidated ==
    \A n \in {"range", "date"} : Cached(n) => n \in stale

\* C20: after every successful leave create, leave cancel, status change
\* (single or bulk) and config save, every cached slot snapshot, range and
\* single-date, is invalidated; an invalidated snapshot counts as fresh again
\* only once it has been fetched again.
C20_SlotsInvalidated ==
    [][ /\ MutationSucceeded => SlotSnapshotsInvalidated'
        /\ ("range" \in stale /\ "range" \notin stale') => SlotRangeRefetched
        /\ ("date" \in stale /\ "date" \notin stale')
              => (SlotInfoForDateFetched \/ ~slotInfoForDate'.loaded) ]_vars

\* a bulk status change has invalidated the range snapshot and the loaded
\* single-date detail
C20_Witness ==
    /\ toast = "success: statuses updated"
    /\ slotInfoForDate.loaded
    /\ {"range", "date"} \subseteq stale

\* a leave mutation has succeeded: create, cancel, single or bulk status
\* change
LeaveMutationSucceeded ==
    \/ CreateLeaveSucceeded
    \/ CancelLeaveSucceeded
    \/ \E j \in 1..MaxLeaves, status \in {"APPROVED", "REJECTED"} :
          UpdateLeaveStatusSucceeded(j, status)
    \/ \E leaveIds \in SUBSET (1..MaxLeaves), status \in {"APPROVED", "REJECTED"} :
          UpdateMultipleLeaveStatusesSucceeded(leaveIds, status)

\* C21: after every successful leave create, leave cancel and status change
\* (single or bulk), every cached leave list that can contain the affected
\* leave, the owning user's list and the list of all leaves, is invalidated.
C21_LeaveListsInvalidated ==
    [][ LeaveMutationSucceeded
          => \A n \in {"leaves", "all"} : Cached(n) => n \in stale' ]_vars

\* C25: when the list holds several leaves on the same date (a REJECTED one
\* and a later re-application), the date is unselectable whenever at least
\* one of them is PENDING or APPROVED, whatever their order in the list.
C25_ActiveLeaveBlocksDate ==
    \A d \in Dates : HasActiveLeaveOn(myLeaves, d) => view.cells[d].isDisabled

\* the REJECTED leave comes last and overwrites the PENDING one in
\* leavesByDate; the date lies in the booking window and is blocked by the
\* booked week
C25_Witness ==
    /\ Len(myLeaves) = 2
    /\ myLeaves[1].date = myLeaves[2].date
    /\ myLeaves[1].status = "PENDING"
    /\ myLeaves[2].status = "REJECTED"
    /\ LET c == view.cells[myLeaves[1].date]
       IN  /\ c.isDisabled
           /\ c.isWeekBooked
           /\ ~c.ownLeave
           /\ ~c.isPast
           /\ ~c.isFutureDisabled
           /\ ~c.isDayDisabledByConfig
           /\ ~c.noSlots

(***************************************************************************)
(* Properties of the leave history and of the admin's leave management      *)
(***************************************************************************)

\* the step deletes a leave of the server's list on the user's request
LeaveCancelled ==
    /\ toast' = "success: cancelled"
    /\ Len(serverLeaves') = Len(serverLeaves) - 1

\* C23: the owning user is offered cancellation of a leave only while the
\* leave's status in the displayed list is PENDING: every cancellation
\* removes a leave that the displayed list shows as PENDING.
C23_CancelOnlyPending ==
    [][ LeaveCancelled =>
          \E i \in DOMAIN myLeaves, j \in DOMAIN serverLeaves :
              /\ myLeaves[i].status = "PENDING"
              /\ serverLeaves[j] = myLeaves[i]
              /\ serverLeaves' = RemoveAt(serverLeaves, j) ]_vars

\* a PENDING leave has been cancelled while the list also shows an APPROVED
\* leave, which the server still holds
C23_Witness ==
    /\ toast = "success: cancelled"
    /\ Len(serverLeaves) = 1
    /\ Len(myLeaves) = 2
    /\ \E i \in DOMAIN myLeaves : myLeaves[i].status = "PENDING"
    /\ \E i \in DOMAIN myLeaves :
          myLeaves[i].status = "APPROVED" /\ serverLeaves[1] = myLeaves[i]

(***************************************************************************)
(* Properties of the calendar's focus and selection                        *)
(***************************************************************************)

\* the focused date lies in the displayed month
FocusInDisplayedMonth ==
    /\ GetUTCMonth(focusedDate) = GetUTCMonth(viewDate)
    /\ GetUTCFullYear(focusedDate) = GetUTCFullYear(viewDate)

\* C27: in every reachable state, after arrow, Home, End, PageUp and PageDown
\* keys, previous-month and next-month clicks, date selections and re-mounts
\* of the calendar with a date already selected, the focused date lies
\* within the displayed month.
C27_FocusInDisplayedMonth == FocusInDisplayedMonth

\* the step makes a date the selected date
DateSelected == selectedDate' # selectedDate /\ selectedDate' # NoDate

\* C26: a date becomes the selected date only through a day cell that is
\* enabled at that moment: neither a click nor Enter or Space on the focused
\* date selects a date the calendar classifies as disabled, and Enter or
\* Space on a focused date outside the displayed month selects nothing.
C26_SelectOnlyEnabled ==
    [][ DateSelected =>
          /\ selectedDate' \in Dates
          /\ ~view.cells[selectedDate'].isDisabled
          /\ ButtonInGrid(selectedDate') ]_vars

\* the focused date has been selected with the keyboard after the focus had
\* moved there from another selected date
C26_Witness ==
    /\ selectedDate # NoDate
    /\ focusedDate = DateUTC(selectedDate)
    /\ GetUTCMonth(focusedDate) # GetUTCMonth(DateUTC(today))
    /\ FocusInDisplayedMonth

\* the focus is on an enabled date outside the displayed month, where Enter
\* and Space find no button
C26_WitnessOutside ==
    /\ ~FocusInDisplayedMonth
    /\ ~ButtonDisabled(ToISODate(focusedDate))

(***************************************************************************)
(* Properties of date strings                                              *)
(***************************************************************************)

\* C24: a date string that fails strict YYYY-MM-DD validation is reported as
\* invalid input, never silently coerced, both in date formatting and where
\* leave dates are parsed: neither formatDate nor the parsing of a leave's
\* date turns such a string into a date.
C24_InvalidDateReported ==
    (formatDateInput # EmptyString /\ ~StrictValid(formatDateInput)) =>
        /\ formatted.kind # "dmy"
        /\ leaveDate.kind # "date"

\* the step sends a status-change request
RequestSent == adminRequest'.pending /\ ~adminRequest.pending

\* C22: the admin interface requests a status change only for a leave whose
\* status is PENDING, and only to APPROVED or REJECTED: no request changes
\* the status of a leave that is APPROVED or REJECTED.  The status is the one
\* the admin's list shows when the request is sent.
C22_RequestOnlyForPending ==
    [][ RequestSent =>
          /\ adminRequest'.status \in {"APPROVED", "REJECTED"}
          /\ \A id \in adminRequest'.leaveIds :
                /\ id \in DOMAIN allLeaves
                /\ allLeaves[id].status = "PENDING" ]_vars

\* the request carries exactly the leaves that are PENDING and displayed
\* under the current filter and search
BulkRequestOfDisplayed ==
    (RequestSent /\ adminRequest'.bulk) =>
        /\ adminRequest'.leaveIds \subseteq selectableLeaves
        /\ selectedLeaves' = {}

\* C28: a bulk approve or reject request carries only ids of leaves that are
\* PENDING and displayed under the current status filter and search query at
\* the moment it is sent, after any sequence of toggles, select-all, filter
\* changes, search changes and list refreshes; the selection is empty after
\* every bulk action.
C28_BulkOnlyDisplayedPending == [][BulkRequestOfDisplayed]_vars

(***************************************************************************)
(* Properties of the shift scheduler                                       *)
(***************************************************************************)

\* the step confirms a bulk swap
SwapConfirmed ==
    /\ showBulkModal # NoShift
    /\ showBulkModal' = NoShift
    /\ bulkChangeMode = "swap"
    /\ bulkShiftId' # bulkShiftId

\* the requests of a swap that processes the given users of the source shift
SwapRequests(processed) ==
    { [ userId |-> u, shiftId |-> bulkShiftId ] : u \in processed }
    \cup { [ userId |-> u, shiftId |-> showBulkModal ] :
              u \in Range(assignedUsers(bulkShiftId)) }

\* C29: a bulk swap between a source and a target shift issues one
\* assignment request per processed source user, naming that user and the
\* target shift, and one per user currently in the target shift, naming that
\* user and the source shift.
C29_SwapRequests ==
    [][ SwapConfirmed =>
          \E processed \in { Range(assignedUsers(showBulkModal)),
                             Range(assignedUsers(showBulkModal)) \cap selectedActionUsers } :
              /\ processed # {}
              /\ Range(shiftRequests') = SwapRequests(processed)
              /\ Len(shiftRequests') = Cardinality(SwapRequests(processed)) ]_vars

---------------------------------------------------------------------------
(* Properties of the session *)

\* a login completes: the server's answer reaches App.handleLogin
LoginCompleted == loginRequest.pending /\ currentUser = NoUser /\ currentUser' # NoUser

\* the mount effects of a loaded page give the page a current user
UserRestored == ~appMounted /\ appMounted' /\ currentUser' # NoUser

\* C30: session persistence.  The stored user is written only by a login that
\* was submitted with 'Remember me' checked, and then it is that login's user;
\* a login without 'Remember me' leaves the stored user as it was; a logout
\* leaves neither a current user nor a stored user; and a page load restores
\* a user only from a stored user - which, by the first three, is the user of
\* a 'Remember me' login after which no logout has happened.
C30_SessionPersistence ==
    [][ /\ (storedUser' # storedUser /\ storedUser' # NoItem)
            => /\ LoginCompleted
               /\ loginRequest.rememberMe
               /\ JSONParse(storedUser') = currentUser'
        /\ (LoginCompleted /\ ~loginRequest.rememberMe)
            => storedUser' = storedUser
        /\ (appMounted /\ appMounted' /\ currentUser # NoUser /\ currentUser' = NoUser)
            => storedUser' = NoItem
        /\ (storedUser' # storedUser /\ storedUser' = NoItem)
            => currentUser # NoUser /\ currentUser' = NoUser
        /\ UserRestored
            => storedUser # NoItem /\ currentUser' = JSONParse(storedUser)
      ]_vars

\* a reloaded page shows the user of an earlier 'Remember me' login
C30_Witness ==
    /\ appMounted
    /\ currentUser = StaffUser
    /\ storedUser = JSONStringify(StaffUser)
    /\ toast = "none"

====
